---------------------------- MODULE Spec2Model ----------------------------
(***************************************************************************)
(* A model of the rusty6502 CPU core: the bus (src/bus.rs), the flag and   *)
(* register file (src/cpu/registers.rs), the addressing-mode resolver and  *)
(* the instruction handlers (src/cpu/instructions.rs), the opcode table    *)
(* (src/cpu/lookup_table.rs) and the CPU itself (src/cpu/mod.rs).          *)
(*                                                                         *)
(* The CPU is one record.  Besides the fields of the Rust struct it has    *)
(* three observation fields that the Rust struct does not have:            *)
(*   panicked  TRUE once a Rust panic has unwound the current call         *)
(*   ticked    the sum of the arguments of all Bus::tick calls             *)
(*   log       the lines appended to ./log.txt                             *)
(* A panic stops the operation where it is raised: every later step of     *)
(* the same operation leaves the record alone, so the record shows the     *)
(* partially done work exactly as the Rust value would after unwinding.    *)
(***************************************************************************)
EXTENDS Integers, Sequences, FiniteSets, TLC

VARIABLES
    cpu,     \* the CPU (see above)
    start,   \* the CPU and the input at the start of the scenario or run
    pre,     \* the CPU before the last operation
    op,      \* the operations applied, oldest first
    arg,     \* the input or the result of the last operation
    runpc,   \* where CPU::run stands
    cb,      \* the closure CPU::run was given
    ncb,     \* callback invocations of the current run
    nsteps   \* completed steps of the current run

vars == <<cpu, start, pre, op, arg, runpc, cb, ncb, nsteps>>

---------------------------------------------------------------------------
(* Machine integers *)

U8 == 256
U16 == 65536
Byte == 0 .. 255

wrap8(n) == n % U8
wrap16(n) == n % U16

RECURSIVE BitAndN(_, _, _)
BitAndN(a, b, n) ==
    IF n = 0 \/ a = 0 \/ b = 0 THEN 0
    ELSE (IF a % 2 = 1 /\ b % 2 = 1 THEN 1 ELSE 0)
         + 2 * BitAndN(a \div 2, b \div 2, n - 1)

RECURSIVE BitOrN(_, _, _)
BitOrN(a, b, n) ==
    IF n = 0 \/ (a = 0 /\ b = 0) THEN 0
    ELSE (IF a % 2 = 1 \/ b % 2 = 1 THEN 1 ELSE 0)
         + 2 * BitOrN(a \div 2, b \div 2, n - 1)

RECURSIVE BitXorN(_, _, _)
BitXorN(a, b, n) ==
    IF n = 0 \/ (a = 0 /\ b = 0) THEN 0
    ELSE (IF a % 2 # b % 2 THEN 1 ELSE 0)
         + 2 * BitXorN(a \div 2, b \div 2, n - 1)

And(a, b) == BitAndN(a, b, 16)
Or(a, b) == BitOrN(a, b, 16)
Xor(a, b) == BitXorN(a, b, 16)
Shl8(a, k) == (a * 2 ^ k) % U8
Shr(a, k) == a \div 2 ^ k

\* `x as i8`: the two's complement reading of a byte
as_i8(x) == IF x % U8 >= 128 THEN (x % U8) - U8 ELSE x % U8
\* `w as u16` for w: i8 (sign extension)
i8_as_u16(w) == IF w < 0 THEN w + U16 ELSE w

---------------------------------------------------------------------------
(* src/bus.rs *)

\* memory: [u8; 0xFFFF] has 65535 cells, the indices 0 .. 0xFFFE
MemLen == 65535

\* The memory is kept as the function of its non-zero cells.
ZeroMemory == [x \in {} |-> 0]

Peek(memory, adr) == IF adr \in DOMAIN memory THEN memory[adr] ELSE 0

Poke(memory, adr, data) ==
    LET D == IF data = 0 THEN DOMAIN memory \ {adr} ELSE DOMAIN memory \cup {adr}
    IN  [x \in D |-> IF x = adr THEN data ELSE memory[x]]

Panic(c) == [c EXCEPT !.panicked = TRUE]

\* Bus::read; indexing past the array panics.  Yields the CPU and the value.
bus_read(c, adr) ==
    IF c.panicked THEN [c |-> c, v |-> 0]
    ELSE IF adr >= MemLen THEN [c |-> Panic(c), v |-> 0]
    ELSE [c |-> c, v |-> Peek(c.bus.memory, adr)]

\* Bus::write
bus_write(c, adr, data) ==
    IF c.panicked THEN c
    ELSE IF adr >= MemLen THEN Panic(c)
    ELSE [c EXCEPT !.bus.memory = Poke(c.bus.memory, adr, data)]

\* Bus::tick has an empty body; `ticked` records what it was given.
bus_tick(c, cycles) ==
    IF c.panicked THEN c ELSE [c EXCEPT !.ticked = c.ticked + cycles]

---------------------------------------------------------------------------
(* src/cpu/registers.rs *)

bool_u8(b) == IF b THEN 1 ELSE 0

FlagNames == {"carry", "zero", "interrupt_disable", "decimal", "b",
              "overflow", "negative"}

Flag == [FlagNames -> BOOLEAN]

Flag_reset(f) ==
    [carry |-> FALSE, zero |-> FALSE, interrupt_disable |-> FALSE,
     decimal |-> FALSE, b |-> FALSE, overflow |-> FALSE, negative |-> FALSE]

set_zero_negative(f, i) ==
    [f EXCEPT !.zero = (i = 0), !.negative = (And(i, 128) # 0)]

\* impl From<Flag> for u8
u8_from_Flag(f) ==
    Or(bool_u8(f.carry),
    Or(Shl8(bool_u8(f.zero), 1),
    Or(Shl8(bool_u8(f.interrupt_disable), 2),
    Or(Shl8(bool_u8(f.decimal), 3),
    Or(Shl8(bool_u8(f.b), 4),
    Or(Shl8(1, 5),
    Or(Shl8(bool_u8(f.overflow), 6),
       Shl8(bool_u8(f.negative), 7))))))))

\* an unpacking that does not skip the unused bit 5
Flag_from_u8_mut(b) ==
    [carry |-> And(1, b) > 0,
     zero |-> And(Shl8(1, 1), b) > 0,
     interrupt_disable |-> And(Shl8(1, 2), b) > 0,
     decimal |-> And(Shl8(1, 3), b) > 0,
     b |-> And(Shl8(1, 4), b) > 0,
     overflow |-> And(Shl8(1, 5), b) > 0,
     negative |-> And(Shl8(1, 6), b) > 0]

\* impl From<u8> for Flag
Flag_from_u8(b) ==
    [carry |-> And(1, b) > 0,
     zero |-> And(Shl8(1, 1), b) > 0,
     interrupt_disable |-> And(Shl8(1, 2), b) > 0,
     decimal |-> And(Shl8(1, 3), b) > 0,
     b |-> And(Shl8(1, 4), b) > 0,
     overflow |-> And(Shl8(1, 6), b) > 0,
     negative |-> And(Shl8(1, 7), b) > 0]

---------------------------------------------------------------------------
(* src/cpu/mod.rs: the CPU *)

\* uint_to_string_literal: format!("{:0002X}", value), upper-case hex, at
\* least two digits
HexDigit(n) == SubSeq("0123456789ABCDEF", n + 1, n + 1)

RECURSIVE HexOf(_)
HexOf(n) == IF n < 16 THEN HexDigit(n) ELSE HexOf(n \div 16) \o HexDigit(n % 16)

uint_to_string_literal(value) ==
    IF value < 16 THEN "0" \o HexOf(value) ELSE HexOf(value)

\* append_to_file("./log.txt", content): one more line in the log.  The
\* file system is taken to accept the write.
append_to_file(c, content) ==
    IF c.panicked THEN c ELSE [c EXCEPT !.log = Append(c.log, content)]

PowerOnFlags == Flag_from_u8(36)

\* CPU::new(Bus { memory: [0; 65535] }).  overflow_checks is the profile of
\* the build (rustc's overflow checks, on in debug and off in release); the
\* one unchecked addition of the code, in stack_push, reads it.
CPU_new ==
    [bus |-> [memory |-> ZeroMemory],
     pc |-> 0,
     flags |-> PowerOnFlags,
     reg |-> [a |-> 0, x |-> 0, y |-> 0, sp |-> 253],
     halted |-> FALSE,
     stack_loc |-> 256,
     overflow_checks |-> FALSE,
     panicked |-> FALSE,
     ticked |-> 0,
     log |-> <<>>]

\* a reset that also leaves the halted state
reset_mut(c) ==
    LET lo == bus_read(c, 65532)
        hi == bus_read(lo.c, 65533)
    IN  IF hi.c.panicked THEN hi.c
        ELSE [hi.c EXCEPT !.reg = [a |-> 0, x |-> 0, y |-> 0, sp |-> 253],
                          !.flags = Flag_from_u8(36),
                          !.halted = FALSE,
                          !.pc = Or(lo.v, hi.v * 256)]

\* a reset that reads the two bytes of the reset vector the other way round
reset_vector_mut(c) ==
    LET lo == bus_read(c, 65532)
        hi == bus_read(lo.c, 65533)
    IN  IF hi.c.panicked THEN hi.c
        ELSE [hi.c EXCEPT !.reg = [a |-> 0, x |-> 0, y |-> 0, sp |-> 253],
                          !.flags = Flag_from_u8(36),
                          !.pc = Or(hi.v, lo.v * 256)]

\* CPU::reset
reset(c) ==
    LET lo == bus_read(c, 65532)
        hi == bus_read(lo.c, 65533)
    IN  IF hi.c.panicked THEN hi.c
        ELSE [hi.c EXCEPT !.reg = [a |-> 0, x |-> 0, y |-> 0, sp |-> 253],
                          !.flags = Flag_from_u8(36),
                          !.pc = Or(lo.v, hi.v * 256)]

\* self.bus.memory[0x0600..(0x0600 + data.len())].copy_from_slice(&data[..])
\* the slice is taken first: a range past the array panics before any copy
copy_from_slice(memory, at, data) ==
    LET range == at .. (at + Len(data) - 1)
        D == (DOMAIN memory \ range) \cup {x \in range : data[x - at + 1] # 0}
    IN  [x \in D |-> IF x \in range THEN data[x - at + 1] ELSE memory[x]]

\* CPU::load
load(c, data) ==
    IF c.panicked THEN c
    ELSE IF 1536 + Len(data) > MemLen THEN Panic(c)
    ELSE LET c1 == [c EXCEPT !.bus.memory = copy_from_slice(c.bus.memory, 1536, data)]
             c2 == bus_write(c1, 65532, 0)
             c3 == bus_write(c2, 65533, 6)
         IN  reset(c3)

\* CPU::load_rom_file; a file is [found, data].  A file that cannot be opened
\* or read gives Err, any other goes to load and gives Ok(()); a panic in
\* load returns nothing.
load_rom_file(c, file) ==
    IF c.panicked THEN [c |-> c, v |-> "none"]
    ELSE IF ~file.found THEN [c |-> c, v |-> "Err"]
    ELSE LET c1 == load(c, file.data)
         IN  [c |-> c1, v |-> IF c1.panicked THEN "none" ELSE "Ok"]

\* CPU::stack_push; a value above 0xFF goes as two bytes, high byte first,
\* any other value as one byte.  self.stack_loc + self.reg.sp as u16 is an
\* unchecked u16 addition: past 0xFFFF it panics in a build with overflow
\* checks and wraps in a build without.
RECURSIVE stack_push(_, _)
stack_push(c, data) ==
    IF c.panicked THEN c
    ELSE IF data > 255
    THEN LET lo == And(data, 255)
             hi == Shr(And(data, 65280), 8)
         IN  stack_push(stack_push(c, hi), lo)
    ELSE IF c.stack_loc + c.reg.sp >= U16 /\ c.overflow_checks THEN Panic(c)
    ELSE LET c1 == bus_write(c, wrap16(c.stack_loc + c.reg.sp), wrap8(data))
         IN  IF c1.panicked THEN c1
             ELSE [c1 EXCEPT !.reg.sp = wrap8(c.reg.sp - 1 + U8)]

\* a pop that reads before it moves the stack pointer
stack_pop_mut(c) ==
    IF c.panicked THEN [c |-> c, v |-> 0]
    ELSE LET r == bus_read(c, Or(c.reg.sp, c.stack_loc))
         IN  [c |-> [r.c EXCEPT !.reg.sp = wrap8(c.reg.sp + 1)], v |-> r.v]

\* CPU::stack_pop
stack_pop(c) ==
    IF c.panicked THEN [c |-> c, v |-> 0]
    ELSE LET c1 == [c EXCEPT !.reg.sp = wrap8(c.reg.sp + 1)]
         IN  bus_read(c1, Or(c1.reg.sp, c1.stack_loc))

\* CPU::stack_pop16
stack_pop16(c) ==
    LET lo == stack_pop(c)
        hi == stack_pop(lo.c)
    IN  [c |-> hi.c, v |-> Or(lo.v, hi.v * 256)]

\* CPU::u8_operand
u8_operand(c) ==
    IF c.panicked THEN [c |-> c, v |-> 0]
    ELSE LET c1 == [c EXCEPT !.pc = wrap16(c.pc + 1)]
         IN  bus_read(c1, c1.pc)

\* CPU::i8_operand
i8_operand(c) ==
    IF c.panicked THEN [c |-> c, v |-> 0]
    ELSE LET c1 == [c EXCEPT !.pc = wrap16(c.pc + 1)]
             r == bus_read(c1, c1.pc)
         IN  [c |-> r.c, v |-> as_i8(r.v)]

\* CPU::u16_operand
u16_operand(c) ==
    LET lo == u8_operand(c)
        hi == u8_operand(lo.c)
    IN  [c |-> hi.c, v |-> Or(hi.v * 256, lo.v)]

\* CPU::branch
branch(c, w, cond) ==
    IF c.panicked \/ ~cond THEN c
    ELSE LET c1 == bus_tick(c, 1)
             addr == wrap16(c1.pc + i8_as_u16(w))
             c2 == IF And(addr, 65280) # And(c1.pc, 65280)
                   THEN bus_tick(c1, 1) ELSE c1
         IN  [c2 EXCEPT !.pc = addr]

---------------------------------------------------------------------------
(* src/cpu/instructions.rs: operands and addressing modes *)

Immediate(x) == [kind |-> "Immediate", x |-> x]
Address(x) == [kind |-> "Address", x |-> x]

\* Data::default_unwrap
default_unwrap(d, c) ==
    IF d.kind = "Immediate" THEN [c |-> c, v |-> wrap8(d.x)]
    ELSE bus_read(c, d.x)

\* Data::address_unwrap; an immediate operand panics
address_unwrap(d, c) ==
    IF c.panicked THEN [c |-> c, v |-> 0]
    ELSE IF d.kind = "Address" THEN [c |-> c, v |-> d.x]
    ELSE [c |-> Panic(c), v |-> 0]

\* Data::int_unwrap
int_unwrap(d, c) ==
    IF d.kind = "Immediate" THEN [c |-> c, v |-> as_i8(d.x)]
    ELSE LET r == bus_read(c, d.x) IN [c |-> r.c, v |-> as_i8(r.v)]

Addrmode == {"A", "Abs", "AbsX", "AbsY", "Imm", "Impl", "Ind", "XInd",
             "IndY", "Rel", "Zpg", "ZpgX", "ZpgY"}

join_bytes(lo, hi) == Or(hi * 256, lo)

\* a page test that masks the low bytes instead of the high bytes
page_crossed_mut(a1, a2) == And(a1, 255) # And(a2, 255)

page_crossed(a1, a2) == And(a1, 65280) # And(a2, 65280)

\* an unpack whose indirect-Y pointer runs on into page one
unpack_mut(mode, c) ==
    CASE mode \in {"Rel", "Imm"} ->
           LET r == u8_operand(c)
           IN  [c |-> r.c, d |-> Immediate(r.v), pagecross |-> FALSE]
      [] mode = "A" ->
           [c |-> c, d |-> Immediate(c.reg.a), pagecross |-> FALSE]
      [] mode = "Abs" ->
           LET r == u16_operand(c)
           IN  [c |-> r.c, d |-> Address(r.v), pagecross |-> FALSE]
      [] mode = "AbsX" ->
           LET r == u16_operand(c)
               addr == wrap16(r.v + r.c.reg.x)
           IN  [c |-> r.c, d |-> Address(addr), pagecross |-> page_crossed(r.v, addr)]
      [] mode = "AbsY" ->
           LET r == u16_operand(c)
               addr == wrap16(r.v + r.c.reg.y)
           IN  [c |-> r.c, d |-> Address(addr), pagecross |-> page_crossed(r.v, addr)]
      [] mode = "Zpg" ->
           LET r == u8_operand(c)
           IN  [c |-> r.c, d |-> Address(r.v), pagecross |-> FALSE]
      [] mode = "ZpgX" ->
           LET r == u8_operand(c)
           IN  [c |-> r.c, d |-> Address(wrap8(r.v + r.c.reg.x)), pagecross |-> FALSE]
      [] mode = "ZpgY" ->
           LET r == u8_operand(c)
           IN  [c |-> r.c, d |-> Address(wrap8(r.v + r.c.reg.y)), pagecross |-> FALSE]
      [] mode = "Ind" ->
           LET adr == u16_operand(c)
               lo == bus_read(adr.c, adr.v)
               hi == bus_read(lo.c, wrap16(adr.v + 1))
           IN  [c |-> hi.c, d |-> Address(join_bytes(lo.v, hi.v)), pagecross |-> FALSE]
      [] mode = "XInd" ->
           LET zp_base == u8_operand(c)
               ptr == wrap8(zp_base.v + zp_base.c.reg.x)
               lo == bus_read(zp_base.c, ptr)
               hi == bus_read(lo.c, wrap8(ptr + 1))
           IN  [c |-> hi.c, d |-> Address(join_bytes(lo.v, hi.v)), pagecross |-> FALSE]
      [] mode = "IndY" ->
           LET base == u8_operand(c)
               lo == bus_read(base.c, base.v)
               hi == bus_read(lo.c, base.v + 1)
               baseptr == join_bytes(lo.v, hi.v)
               new == wrap16(baseptr + hi.c.reg.y)
           IN  [c |-> hi.c, d |-> Address(new), pagecross |-> page_crossed(baseptr, new)]
      [] mode = "Impl" ->
           [c |-> c, d |-> Address(0), pagecross |-> FALSE]

\* Addrmode::unpack: the CPU after the operand bytes are consumed, the
\* operand d and the page-cross report
unpack(mode, c) ==
    CASE mode \in {"Rel", "Imm"} ->
           LET r == u8_operand(c)
           IN  [c |-> r.c, d |-> Immediate(r.v), pagecross |-> FALSE]
      [] mode = "A" ->
           [c |-> c, d |-> Immediate(c.reg.a), pagecross |-> FALSE]
      [] mode = "Abs" ->
           LET r == u16_operand(c)
           IN  [c |-> r.c, d |-> Address(r.v), pagecross |-> FALSE]
      [] mode = "AbsX" ->
           LET r == u16_operand(c)
               addr == wrap16(r.v + r.c.reg.x)
           IN  [c |-> r.c, d |-> Address(addr), pagecross |-> page_crossed(r.v, addr)]
      [] mode = "AbsY" ->
           LET r == u16_operand(c)
               addr == wrap16(r.v + r.c.reg.y)
           IN  [c |-> r.c, d |-> Address(addr), pagecross |-> page_crossed(r.v, addr)]
      [] mode = "Zpg" ->
           LET r == u8_operand(c)
           IN  [c |-> r.c, d |-> Address(r.v), pagecross |-> FALSE]
      [] mode = "ZpgX" ->
           LET r == u8_operand(c)
           IN  [c |-> r.c, d |-> Address(wrap8(r.v + r.c.reg.x)), pagecross |-> FALSE]
      [] mode = "ZpgY" ->
           LET r == u8_operand(c)
           IN  [c |-> r.c, d |-> Address(wrap8(r.v + r.c.reg.y)), pagecross |-> FALSE]
      [] mode = "Ind" ->
           LET adr == u16_operand(c)
               lo == bus_read(adr.c, adr.v)
               hi == bus_read(lo.c, wrap16(adr.v + 1))
           IN  [c |-> hi.c, d |-> Address(join_bytes(lo.v, hi.v)), pagecross |-> FALSE]
      [] mode = "XInd" ->
           LET zp_base == u8_operand(c)
               ptr == wrap8(zp_base.v + zp_base.c.reg.x)
               lo == bus_read(zp_base.c, ptr)
               hi == bus_read(lo.c, wrap8(ptr + 1))
           IN  [c |-> hi.c, d |-> Address(join_bytes(lo.v, hi.v)), pagecross |-> FALSE]
      [] mode = "IndY" ->
           LET base == u8_operand(c)
               lo == bus_read(base.c, base.v)
               hi == bus_read(lo.c, wrap8(base.v + 1))
               baseptr == join_bytes(lo.v, hi.v)
               new == wrap16(baseptr + hi.c.reg.y)
           IN  [c |-> hi.c, d |-> Address(new), pagecross |-> page_crossed(baseptr, new)]
      [] mode = "Impl" ->
           [c |-> c, d |-> Address(0), pagecross |-> FALSE]

---------------------------------------------------------------------------
(* src/cpu/instructions.rs: instruction_set *)

\* an adc whose overflow test takes the operand against the accumulator
adc_mut(d, c) ==
    LET w == default_unwrap(d, c)
        sum == w.c.reg.a + w.v + (IF w.c.flags.carry THEN 1 ELSE 0)
        result == wrap8(sum)
        f1 == [w.c.flags EXCEPT !.carry = sum > 255]
        f2 == set_zero_negative(f1, result)
        f3 == [f2 EXCEPT !.overflow =
                 And(And(Xor(w.v, w.c.reg.a), Xor(w.c.reg.a, result)), 128) # 0]
    IN  IF w.c.panicked THEN w.c
        ELSE [w.c EXCEPT !.flags = f3, !.reg.a = result]

adc(d, c) ==
    LET w == default_unwrap(d, c)
        sum == w.c.reg.a + w.v + (IF w.c.flags.carry THEN 1 ELSE 0)
        result == wrap8(sum)
        f1 == [w.c.flags EXCEPT !.carry = sum > 255]
        f2 == set_zero_negative(f1, result)
        f3 == [f2 EXCEPT !.overflow =
                 And(And(Xor(w.v, result), Xor(w.c.reg.a, result)), 128) # 0]
    IN  IF w.c.panicked THEN w.c
        ELSE [w.c EXCEPT !.flags = f3, !.reg.a = result]

\* an sbc that adds the two's complement of the operand
sbc_mut(d, c) ==
    LET q == default_unwrap(d, c)
        w == wrap8(U8 - q.v)
        sum == q.c.reg.a + w + (IF q.c.flags.carry THEN 1 ELSE 0)
        result == wrap8(sum)
        f1 == [q.c.flags EXCEPT !.carry = sum > 255]
        f2 == set_zero_negative(f1, result)
        f3 == [f2 EXCEPT !.overflow =
                 And(And(Xor(w, result), Xor(q.c.reg.a, result)), 128) # 0]
    IN  IF q.c.panicked THEN q.c
        ELSE [q.c EXCEPT !.flags = f3, !.reg.a = result]

\* w = (q as i8).wrapping_neg().wrapping_sub(1) as u8
sbc(d, c) ==
    LET q == default_unwrap(d, c)
        w == wrap8(wrap8(U8 - q.v) + U8 - 1)
        sum == q.c.reg.a + w + (IF q.c.flags.carry THEN 1 ELSE 0)
        result == wrap8(sum)
        f1 == [q.c.flags EXCEPT !.carry = sum > 255]
        f2 == set_zero_negative(f1, result)
        f3 == [f2 EXCEPT !.overflow =
                 And(And(Xor(w, result), Xor(q.c.reg.a, result)), 128) # 0]
    IN  IF q.c.panicked THEN q.c
        ELSE [q.c EXCEPT !.flags = f3, !.reg.a = result]

bcc(d, c) == LET i == int_unwrap(d, c) IN branch(i.c, i.v, ~i.c.flags.carry)
bcs(d, c) == LET i == int_unwrap(d, c) IN branch(i.c, i.v, i.c.flags.carry)
beq(d, c) == LET i == int_unwrap(d, c) IN branch(i.c, i.v, i.c.flags.zero)
bmi(d, c) == LET i == int_unwrap(d, c) IN branch(i.c, i.v, i.c.flags.negative)
bne(d, c) == LET i == int_unwrap(d, c) IN branch(i.c, i.v, ~i.c.flags.zero)
bpl(d, c) == LET i == int_unwrap(d, c) IN branch(i.c, i.v, ~i.c.flags.negative)
bvc(d, c) == LET i == int_unwrap(d, c) IN branch(i.c, i.v, ~i.c.flags.overflow)
bvs(d, c) == LET i == int_unwrap(d, c) IN branch(i.c, i.v, i.c.flags.overflow)

jmp(d, c) ==
    LET t == address_unwrap(d, c)
    IN  IF t.c.panicked THEN t.c ELSE [t.c EXCEPT !.pc = wrap16(t.v + U16 - 1)]

\* the push is evaluated before the operand is unwrapped
jsr(d, c) ==
    LET c1 == stack_push(c, wrap16(c.pc + 1))
        t == address_unwrap(d, c1)
    IN  IF t.c.panicked THEN t.c ELSE [t.c EXCEPT !.pc = wrap16(t.v + U16 - 1)]

rts(d, c) ==
    LET r == stack_pop16(c)
    IN  IF r.c.panicked THEN r.c ELSE [r.c EXCEPT !.pc = wrap16(r.v + U16 - 1)]

ldy(d, c) ==
    LET w == default_unwrap(d, c)
    IN  IF w.c.panicked THEN w.c
        ELSE [w.c EXCEPT !.reg.y = w.v,
                         !.flags = set_zero_negative(w.c.flags, w.v)]

\* the flags are taken from register y, not from the value loaded into x
ldx(d, c) ==
    LET w == default_unwrap(d, c)
    IN  IF w.c.panicked THEN w.c
        ELSE [w.c EXCEPT !.reg.x = w.v,
                         !.flags = set_zero_negative(w.c.flags, w.c.reg.y)]

lda(d, c) ==
    LET w == default_unwrap(d, c)
    IN  IF w.c.panicked THEN w.c
        ELSE [w.c EXCEPT !.reg.a = w.v,
                         !.flags = set_zero_negative(w.c.flags, w.v)]

php(d, c) ==
    IF c.panicked THEN c
    ELSE LET t == Or(u8_from_Flag(c.flags), 48)
         IN  stack_push(c, t)

\* a plp that unpacks the popped byte without clearing bits 4 and 5
plp_mut(d, c) ==
    LET r == stack_pop(c)
    IN  IF r.c.panicked THEN r.c
        ELSE [r.c EXCEPT !.flags = Flag_from_u8(r.v)]

plp(d, c) ==
    LET r == stack_pop(c)
        t == And(r.v, 207)
    IN  IF r.c.panicked THEN r.c
        ELSE [r.c EXCEPT !.flags = Flag_from_u8(t)]

\* the operand is widened to 16 bits before the shift; the carry test is
\* w >= 0xFF on the shifted value
asl(d, c) ==
    LET r == default_unwrap(d, c)
        w == (r.v * 2) % U16
        a == wrap8(w)
        f1 == [r.c.flags EXCEPT !.carry = w >= 255]
    IN  IF r.c.panicked THEN r.c
        ELSE [r.c EXCEPT !.reg.a = a, !.flags = set_zero_negative(f1, a)]

\* zero and negative are taken from the operand, not from the result
lsr(d, c) ==
    LET r == default_unwrap(d, c)
        w == r.v
        f1 == [r.c.flags EXCEPT !.carry = And(w, 1) = 1]
    IN  IF r.c.panicked THEN r.c
        ELSE [r.c EXCEPT !.reg.a = Shr(w, 1), !.flags = set_zero_negative(f1, w)]

\* a rol that rotates in the carry it has just computed
rol_mut(d, c) ==
    LET r == default_unwrap(d, c)
        w == r.v
        f1 == [r.c.flags EXCEPT !.carry = Shr(w, 7) = 1]
        q == IF f1.carry THEN Or(Shl8(w, 1), 1) ELSE Shl8(w, 1)
    IN  IF r.c.panicked THEN r.c
        ELSE [r.c EXCEPT !.reg.a = q, !.flags = set_zero_negative(f1, q)]

rol(d, c) ==
    LET r == default_unwrap(d, c)
        w == r.v
        cf == r.c.flags.carry
        f1 == [r.c.flags EXCEPT !.carry = Shr(w, 7) = 1]
        q == IF cf THEN Or(Shl8(w, 1), 1) ELSE Shl8(w, 1)
    IN  IF r.c.panicked THEN r.c
        ELSE [r.c EXCEPT !.reg.a = q, !.flags = set_zero_negative(f1, q)]

ror(d, c) ==
    LET r == default_unwrap(d, c)
        w == r.v
        cf == r.c.flags.carry
        f1 == [r.c.flags EXCEPT !.carry = And(w, 1) = 1]
        q == IF cf THEN Or(Shr(w, 1), 128) ELSE Shr(w, 1)
    IN  IF r.c.panicked THEN r.c
        ELSE [r.c EXCEPT !.reg.a = q, !.flags = set_zero_negative(f1, q)]

cmp(d, c) ==
    LET r == default_unwrap(d, c)
        w == r.v
    IN  IF r.c.panicked THEN r.c
        ELSE [r.c EXCEPT !.flags.zero = (w = r.c.reg.a),
                         !.flags.carry = (r.c.reg.a >= w),
                         !.flags.negative =
                             (Shr(wrap8(r.c.reg.a - w + U8), 7) = 1)]

\* a cpx that compares against the accumulator
cpx_mut(d, c) ==
    LET r == default_unwrap(d, c)
        w == r.v
    IN  IF r.c.panicked THEN r.c
        ELSE [r.c EXCEPT !.flags.zero = (w = r.c.reg.a),
                         !.flags.carry = (r.c.reg.a >= w),
                         !.flags.negative =
                             (Shr(wrap8(r.c.reg.a - w + U8), 7) = 1)]

cpx(d, c) ==
    LET r == default_unwrap(d, c)
        w == r.v
    IN  IF r.c.panicked THEN r.c
        ELSE [r.c EXCEPT !.flags.zero = (w = r.c.reg.x),
                         !.flags.carry = (r.c.reg.x >= w),
                         !.flags.negative =
                             (Shr(wrap8(r.c.reg.x - w + U8), 7) = 1)]

cpy(d, c) ==
    LET r == default_unwrap(d, c)
        w == r.v
    IN  IF r.c.panicked THEN r.c
        ELSE [r.c EXCEPT !.flags.zero = (w = r.c.reg.y),
                         !.flags.carry = (r.c.reg.y >= w),
                         !.flags.negative =
                             (Shr(wrap8(r.c.reg.y - w + U8), 7) = 1)]

inc(d, c) ==
    LET w == default_unwrap(d, c)
        q == wrap8(w.v + 1)
        addr == address_unwrap(d, w.c)
        c1 == bus_write(addr.c, addr.v, q)
    IN  IF c1.panicked THEN c1
        ELSE [c1 EXCEPT !.flags = set_zero_negative(c1.flags, q)]

inx(d, c) ==
    IF c.panicked THEN c
    ELSE LET x == wrap8(c.reg.x + 1)
         IN  [c EXCEPT !.reg.x = x, !.flags = set_zero_negative(c.flags, x)]

iny(d, c) ==
    IF c.panicked THEN c
    ELSE LET y == wrap8(c.reg.y + 1)
         IN  [c EXCEPT !.reg.y = y, !.flags = set_zero_negative(c.flags, y)]

dec(d, c) ==
    LET w == default_unwrap(d, c)
        q == wrap8(w.v + U8 - 1)
        addr == address_unwrap(d, w.c)
        c1 == bus_write(addr.c, addr.v, q)
    IN  IF c1.panicked THEN c1
        ELSE [c1 EXCEPT !.flags = set_zero_negative(c1.flags, q)]

dex(d, c) ==
    IF c.panicked THEN c
    ELSE LET x == wrap8(c.reg.x + U8 - 1)
         IN  [c EXCEPT !.reg.x = x, !.flags = set_zero_negative(c.flags, x)]

dey(d, c) ==
    IF c.panicked THEN c
    ELSE LET y == wrap8(c.reg.y + U8 - 1)
         IN  [c EXCEPT !.reg.y = y, !.flags = set_zero_negative(c.flags, y)]

\* a sta that sets zero and negative from the stored value, as a load does
sta_mut(d, c) ==
    LET addr == address_unwrap(d, c)
        c1 == bus_write(addr.c, addr.v, addr.c.reg.a)
    IN  IF c1.panicked THEN c1
        ELSE [c1 EXCEPT !.flags = set_zero_negative(c1.flags, c1.reg.a)]

sta(d, c) ==
    LET addr == address_unwrap(d, c)
    IN  bus_write(addr.c, addr.v, addr.c.reg.a)

stx(d, c) ==
    LET addr == address_unwrap(d, c)
    IN  bus_write(addr.c, addr.v, addr.c.reg.x)

sty(d, c) ==
    LET addr == address_unwrap(d, c)
    IN  bus_write(addr.c, addr.v, addr.c.reg.y)

pha(d, c) == IF c.panicked THEN c ELSE stack_push(c, c.reg.a)

pla(d, c) ==
    LET r == stack_pop(c)
    IN  IF r.c.panicked THEN r.c
        ELSE [r.c EXCEPT !.reg.a = r.v,
                         !.flags = set_zero_negative(r.c.flags, r.v)]

tax(d, c) ==
    IF c.panicked THEN c
    ELSE [c EXCEPT !.reg.x = c.reg.a,
                   !.flags = set_zero_negative(c.flags, c.reg.a)]

tay(d, c) ==
    IF c.panicked THEN c
    ELSE [c EXCEPT !.reg.y = c.reg.a,
                   !.flags = set_zero_negative(c.flags, c.reg.a)]

tsx(d, c) ==
    IF c.panicked THEN c
    ELSE [c EXCEPT !.reg.x = c.reg.sp,
                   !.flags = set_zero_negative(c.flags, c.reg.sp)]

txa(d, c) ==
    IF c.panicked THEN c
    ELSE [c EXCEPT !.reg.a = c.reg.x,
                   !.flags = set_zero_negative(c.flags, c.reg.x)]

\* txs sets no flag
txs(d, c) == IF c.panicked THEN c ELSE [c EXCEPT !.reg.sp = c.reg.x]

tya(d, c) ==
    IF c.panicked THEN c
    ELSE [c EXCEPT !.reg.a = c.reg.y,
                   !.flags = set_zero_negative(c.flags, c.reg.y)]

and(d, c) ==
    LET r == default_unwrap(d, c)
        a == And(r.c.reg.a, r.v)
    IN  IF r.c.panicked THEN r.c
        ELSE [r.c EXCEPT !.reg.a = a,
                         !.flags = set_zero_negative(r.c.flags, a)]

eor(d, c) ==
    LET r == default_unwrap(d, c)
        a == Xor(r.c.reg.a, r.v)
    IN  IF r.c.panicked THEN r.c
        ELSE [r.c EXCEPT !.reg.a = a,
                         !.flags = set_zero_negative(r.c.flags, a)]

ora(d, c) ==
    LET r == default_unwrap(d, c)
        a == Or(r.c.reg.a, r.v)
    IN  IF r.c.panicked THEN r.c
        ELSE [r.c EXCEPT !.reg.a = a,
                         !.flags = set_zero_negative(r.c.flags, a)]

clc(d, c) == IF c.panicked THEN c ELSE [c EXCEPT !.flags.carry = FALSE]

cld(d, c) == IF c.panicked THEN c ELSE [c EXCEPT !.flags.decimal = FALSE]

cli(d, c) ==
    IF c.panicked THEN c ELSE [c EXCEPT !.flags.interrupt_disable = FALSE]

clv(d, c) == IF c.panicked THEN c ELSE [c EXCEPT !.flags.overflow = FALSE]

sec(d, c) == IF c.panicked THEN c ELSE [c EXCEPT !.flags.carry = TRUE]

sed(d, c) == IF c.panicked THEN c ELSE [c EXCEPT !.flags.decimal = TRUE]

sei(d, c) ==
    IF c.panicked THEN c ELSE [c EXCEPT !.flags.interrupt_disable = TRUE]

brk(d, c) == IF c.panicked THEN c ELSE [c EXCEPT !.halted = TRUE]

\* rti: "do nothing for now"
rti(d, c) == c

bit(d, c) ==
    LET r == default_unwrap(d, c)
        w == r.v
    IN  IF r.c.panicked THEN r.c
        ELSE [r.c EXCEPT !.flags.zero = (And(r.c.reg.a, w) = 0),
                         !.flags.negative = (And(w, 128) > 0),
                         !.flags.overflow = (And(w, 64) > 0)]

nop(d, c) == c

Handlers == {"adc", "sbc", "bcc", "bcs", "beq", "bmi", "bne", "bpl", "bvc",
             "bvs", "jmp", "jsr", "rts", "brk", "nop", "ldy", "ldx", "lda",
             "php", "plp", "asl", "lsr", "rol", "ror", "cmp", "cpx", "cpy",
             "inc", "inx", "iny", "dec", "dex", "dey", "sta", "stx", "sty",
             "pha", "pla", "tax", "tay", "tsx", "txa", "txs", "tya", "and",
             "eor", "ora", "clc", "cld", "cli", "clv", "sec", "sed", "sei",
             "rti", "bit"}

\* (i.run)(unpakt, self): the call through the descriptor's function pointer
run_handler(name, d, c) ==
    CASE name = "adc" -> adc(d, c)
      [] name = "sbc" -> sbc(d, c)
      [] name = "bcc" -> bcc(d, c)
      [] name = "bcs" -> bcs(d, c)
      [] name = "beq" -> beq(d, c)
      [] name = "bmi" -> bmi(d, c)
      [] name = "bne" -> bne(d, c)
      [] name = "bpl" -> bpl(d, c)
      [] name = "bvc" -> bvc(d, c)
      [] name = "bvs" -> bvs(d, c)
      [] name = "jmp" -> jmp(d, c)
      [] name = "jsr" -> jsr(d, c)
      [] name = "rts" -> rts(d, c)
      [] name = "brk" -> brk(d, c)
      [] name = "nop" -> nop(d, c)
      [] name = "ldy" -> ldy(d, c)
      [] name = "ldx" -> ldx(d, c)
      [] name = "lda" -> lda(d, c)
      [] name = "php" -> php(d, c)
      [] name = "plp" -> plp(d, c)
      [] name = "asl" -> asl(d, c)
      [] name = "lsr" -> lsr(d, c)
      [] name = "rol" -> rol(d, c)
      [] name = "ror" -> ror(d, c)
      [] name = "cmp" -> cmp(d, c)
      [] name = "cpx" -> cpx(d, c)
      [] name = "cpy" -> cpy(d, c)
      [] name = "inc" -> inc(d, c)
      [] name = "inx" -> inx(d, c)
      [] name = "iny" -> iny(d, c)
      [] name = "dec" -> dec(d, c)
      [] name = "dex" -> dex(d, c)
      [] name = "dey" -> dey(d, c)
      [] name = "sta" -> sta(d, c)
      [] name = "stx" -> stx(d, c)
      [] name = "sty" -> sty(d, c)
      [] name = "pha" -> pha(d, c)
      [] name = "pla" -> pla(d, c)
      [] name = "tax" -> tax(d, c)
      [] name = "tay" -> tay(d, c)
      [] name = "tsx" -> tsx(d, c)
      [] name = "txa" -> txa(d, c)
      [] name = "txs" -> txs(d, c)
      [] name = "tya" -> tya(d, c)
      [] name = "and" -> and(d, c)
      [] name = "eor" -> eor(d, c)
      [] name = "ora" -> ora(d, c)
      [] name = "clc" -> clc(d, c)
      [] name = "cld" -> cld(d, c)
      [] name = "cli" -> cli(d, c)
      [] name = "clv" -> clv(d, c)
      [] name = "sec" -> sec(d, c)
      [] name = "sed" -> sed(d, c)
      [] name = "sei" -> sei(d, c)
      [] name = "rti" -> rti(d, c)
      [] name = "bit" -> bit(d, c)

---------------------------------------------------------------------------
(* src/cpu/lookup_table.rs *)

Instr(run, mode, cycles) == [run |-> run, mode |-> mode, cycles |-> cycles]

Unresolved == [run |-> "panic", mode |-> "Impl", cycles |-> 0]

\* a table that falls back to a no-op
lookup_mut(opcode) ==
    IF opcode = 0 THEN Instr("brk", "Impl", 7) ELSE Instr("nop", "Impl", 2)

\* lookup: the table has the one entry 0x00; any other opcode panics
lookup(opcode) ==
    IF opcode = 0 THEN Instr("brk", "Impl", 7) ELSE Unresolved

---------------------------------------------------------------------------
(* src/cpu/mod.rs: the step *)

\* CPU::exec from the log line on, for a descriptor i found by lookup
exec_instr(c, opcode, i) ==
    LET c1 == append_to_file(c, uint_to_string_literal(c.pc) \o "|"
                                \o uint_to_string_literal(opcode))
        u == unpack(i.mode, c1)
        c2 == IF u.pagecross THEN bus_tick(u.c, 1) ELSE u.c
        c3 == IF c2.panicked THEN c2 ELSE run_handler(i.run, u.d, c2)
    IN  IF c3.panicked THEN c3 ELSE [c3 EXCEPT !.pc = wrap16(c3.pc + 1)]

\* CPU::exec
exec(c) ==
    LET opcode == bus_read(c, c.pc)
        i == lookup(opcode.v)
    IN  IF opcode.c.panicked THEN opcode.c
        ELSE IF i = Unresolved THEN Panic(opcode.c)
        ELSE exec_instr(opcode.c, opcode.v, i)

\* The opcode bytes of the control transfers, with the handler and the
\* addressing mode each stands for.  The image of tests::initialise_cpu uses
\* 0x20 (jsr), 0x60 (rts), 0x4c (jmp), 0xf0 (beq), 0xb0 (bcs) and 0xd0 (bne);
\* lookup has an arm for none of the twelve.
ControlOps ==
    {[opcode |-> 76, run |-> "jmp", mode |-> "Abs"],
     [opcode |-> 108, run |-> "jmp", mode |-> "Ind"],
     [opcode |-> 32, run |-> "jsr", mode |-> "Abs"],
     [opcode |-> 96, run |-> "rts", mode |-> "Impl"],
     [opcode |-> 16, run |-> "bpl", mode |-> "Rel"],
     [opcode |-> 48, run |-> "bmi", mode |-> "Rel"],
     [opcode |-> 80, run |-> "bvc", mode |-> "Rel"],
     [opcode |-> 112, run |-> "bvs", mode |-> "Rel"],
     [opcode |-> 144, run |-> "bcc", mode |-> "Rel"],
     [opcode |-> 176, run |-> "bcs", mode |-> "Rel"],
     [opcode |-> 208, run |-> "bne", mode |-> "Rel"],
     [opcode |-> 240, run |-> "beq", mode |-> "Rel"]}

\* the opcode byte of the handler run under the addressing mode mode
OpcodeOf(run, mode) ==
    (CHOOSE t \in ControlOps : t.run = run /\ t.mode = mode).opcode

---------------------------------------------------------------------------
(* src/main.rs: the images and the closures given to CPU::run *)

\* tests::eztest
EzCode == <<169, 16, 133, 32, 169, 1, 101, 32, 133, 33, 230, 33, 164, 33, 200, 0>>

\* the images loaded: a lone BRK, NOP; BRK, and the program of eztest
Images == {<<0>>, <<234, 0>>, EzCode}

\* update_input: the key bytes a key press queues; 0 is an empty queue
Keys == {0, 119, 115, 97, 100}

\* rng.gen_range(1, 16) yields 1 .. 15; the model draws from 1 .. MaxRnd
MaxRnd == 2
Rnd == 1 .. MaxRnd

\* handle_user_input
handle_user_input(c, w) == IF w > 0 THEN bus_write(c, 255, w) ELSE c

\* the closure of main: the key, the random byte; read_screen_state only
\* reads the bus
callback_main(c, w, r) == bus_write(handle_user_input(c, w), 254, r)

\* the closure of the tests: move |_cpu| {}
callback_empty(c) == c

---------------------------------------------------------------------------
(* The program: a CPU is built, loaded, reset and run *)

NoArg == <<>>

Init ==
    /\ cpu = CPU_new
    /\ start = [cpu |-> CPU_new, arg |-> "none"]
    /\ pre = CPU_new
    /\ op = <<"new">>
    /\ arg = NoArg
    /\ runpc = "idle"
    /\ cb = "none"
    /\ ncb = 0
    /\ nsteps = 0

Outside == runpc \in {"idle", "returned"} /\ ~cpu.panicked

Load(data) ==
    /\ Outside
    /\ cpu' = load(cpu, data)
    /\ pre' = cpu
    /\ op' = <<"load">>
    /\ arg' = data
    /\ runpc' = "idle"
    /\ UNCHANGED <<start, cb, ncb, nsteps>>

Reset ==
    /\ Outside
    /\ cpu' = reset(cpu)
    /\ pre' = cpu
    /\ op' = <<"reset">>
    /\ arg' = NoArg
    /\ runpc' = "idle"
    /\ UNCHANGED <<start, cb, ncb, nsteps>>

\* CPU::run is called
RunEnter(f) ==
    /\ Outside
    /\ runpc' = "head"
    /\ cb' = f
    /\ start' = [cpu |-> cpu, arg |-> f]
    /\ ncb' = 0
    /\ nsteps' = 0
    /\ pre' = cpu
    /\ op' = <<"run">>
    /\ arg' = f
    /\ UNCHANGED cpu

\* a run that leaves the loop right after the halting step
RunExec_mut ==
    /\ runpc = "head"
    /\ ~cpu.panicked
    /\ ~cpu.halted
    /\ cpu' = exec(cpu)
    /\ pre' = cpu
    /\ op' = <<"exec">>
    /\ arg' = NoArg
    /\ runpc' = IF cpu'.panicked THEN "aborted"
                ELSE IF cpu'.halted THEN "head" ELSE "callback"
    /\ nsteps' = IF cpu'.panicked THEN nsteps ELSE nsteps + 1
    /\ UNCHANGED <<start, cb, ncb>>

\* while !self.halted { self.exec(); ...
RunExec ==
    /\ runpc = "head"
    /\ ~cpu.panicked
    /\ ~cpu.halted
    /\ cpu' = exec(cpu)
    /\ pre' = cpu
    /\ op' = <<"exec">>
    /\ arg' = NoArg
    /\ runpc' = IF cpu'.panicked THEN "aborted" ELSE "callback"
    /\ nsteps' = IF cpu'.panicked THEN nsteps ELSE nsteps + 1
    /\ UNCHANGED <<start, cb, ncb>>

\* ... callback(self); }
RunCallback ==
    /\ runpc = "callback"
    /\ \/ /\ cb = "empty"
          /\ cpu' = callback_empty(cpu)
          /\ arg' = NoArg
       \/ /\ cb = "main"
          /\ \E w \in Keys, r \in Rnd :
                /\ cpu' = callback_main(cpu, w, r)
                /\ arg' = <<w, r>>
    /\ pre' = cpu
    /\ op' = <<"callback">>
    /\ ncb' = ncb + 1
    /\ runpc' = "head"
    /\ UNCHANGED <<start, cb, nsteps>>

\* the loop test fails: CPU::run returns
RunReturn ==
    /\ runpc = "head"
    /\ ~cpu.panicked
    /\ cpu.halted
    /\ runpc' = "returned"
    /\ pre' = cpu
    /\ op' = <<"return">>
    /\ arg' = NoArg
    /\ UNCHANGED <<cpu, start, cb, ncb, nsteps>>

Next ==
    \/ \E data \in Images : Load(data)
    \/ Reset
    \/ \E f \in {"empty", "main"} : RunEnter(f)
    \/ RunExec
    \/ RunCallback
    \/ RunReturn

Spec == Init /\ [][Next]_vars

---------------------------------------------------------------------------
(* Claims about the program *)

MemAt(c, adr) == Peek(c.bus.memory, adr)

InRun == runpc \in {"head", "callback", "returned", "aborted"}

\* C1: eztest: load(EzCode) on a new CPU and run with the empty closure
\* never ends in a panic, and when run has returned the CPU is halted with
\* memory[0x20] = 0x10, memory[0x21] = 0x12, A = 0x11 and Y = 0x13.
C1_EzTestRunsToHalt ==
    (InRun /\ start.arg = "empty" /\ start.cpu = load(CPU_new, EzCode))
    => /\ ~cpu.panicked
       /\ runpc = "returned"
          => /\ cpu.halted
             /\ MemAt(cpu, 32) = 16
             /\ MemAt(cpu, 33) = 18
             /\ cpu.reg.a = 17
             /\ cpu.reg.y = 19

\* C3: halted is false at construction; it becomes true only in a step
\* whose opcode the table gives to brk; once true it stays true under
\* every load, reset and run, and no instruction is dispatched (no line
\* is logged, no step is made) while it is true.
C3_HaltedAbsorbing ==
    /\ [](op = <<"new">> => ~cpu.halted)
    /\ [][/\ cpu.halted
             => (cpu'.halted /\ cpu'.log = cpu.log /\ op' # <<"exec">>)
          /\ (~cpu.halted /\ cpu'.halted)
             => (op' = <<"exec">> /\ lookup(MemAt(cpu, cpu.pc)).run = "brk")
         ]_vars

\* a run entered on a halted CPU after a load has returned without a step
C3_Witness ==
    /\ op = <<"return">>
    /\ cpu.halted
    /\ start.cpu.halted
    /\ start.cpu.pc = 1536
    /\ nsteps = 0
    /\ ncb = 0

\* C4: in a run the callback has been invoked once per completed step:
\* the two counts agree at the loop test and when run returns, the
\* callback is owed exactly one invocation between a completed step and
\* its callback, and a callback is only ever invoked right after a
\* completed step (the halting step included).
C4_CallbackOncePerStep ==
    /\ [](/\ runpc \in {"head", "returned"} => ncb = nsteps
          /\ runpc = "callback" => nsteps = ncb + 1)
    /\ [][ncb' = ncb + 1
          => (op = <<"exec">> /\ ~cpu.panicked /\ runpc = "callback")]_vars

\* the run of a BRK has returned: one step, one callback
C4_Witness ==
    /\ runpc = "returned"
    /\ cpu.halted
    /\ ~start.cpu.halted
    /\ nsteps = 1
    /\ ncb = 1

---------------------------------------------------------------------------
(* Scenarios: one operation, or a short sequence of operations, applied to *)
(* a CPU whose public fields are drawn from sample sets.                   *)

\* a CPU with the given fields (all fields of CPU are pub)
MakeCPU(memory, pc, flags, reg, halted) ==
    [CPU_new EXCEPT !.bus.memory = memory, !.pc = pc, !.flags = flags,
                    !.reg = reg, !.halted = halted]

Regs(a, x, y, sp) == [a |-> a, x |-> x, y |-> y, sp |-> sp]

\* the CPU c in a build with and in a build without overflow checks
Builds(c) == {[c EXCEPT !.overflow_checks = b] : b \in BOOLEAN}

\* the memory with the given cells, given as <<address, byte>> pairs; an
\* address past the array names no cell
RECURSIVE Cells(_)
Cells(pairs) ==
    IF pairs = <<>> THEN ZeroMemory
    ELSE IF Head(pairs)[1] >= MemLen THEN Cells(Tail(pairs))
    ELSE Poke(Cells(Tail(pairs)), Head(pairs)[1], Head(pairs)[2])

AllFlags == [f \in FlagNames |-> TRUE]

\* how far around a page or address-space boundary the samples reach
Window == 2

Near16(x) == {wrap16(x + U16 + k) : k \in (0 - Window) .. Window}
Near8(x) == {wrap8(x + U8 + k) : k \in (0 - Window) .. Window}

ScenarioInit(c, input) ==
    /\ cpu = c
    /\ start = [cpu |-> c, arg |-> input]
    /\ pre = c
    /\ op = <<>>
    /\ arg = input
    /\ runpc = "idle"
    /\ cb = "none"
    /\ ncb = 0
    /\ nsteps = 0

\* operation `name` takes the CPU to c and yields v
Applied(name, c, v) ==
    /\ cpu' = c
    /\ pre' = cpu
    /\ op' = Append(op, name)
    /\ arg' = v
    /\ UNCHANGED <<start, runpc, cb, ncb, nsteps>>

---------------------------------------------------------------------------
(* SpecStep: one CPU::exec from a sampled CPU *)

\* the opcodes lookup has a descriptor for
Described == {0}

StepPcs == Near16(0) \cup Near16(1536)

StepInit ==
    \E pc \in StepPcs, opcode \in Byte, operand \in {0, 32},
       reg \in {Regs(0, 0, 0, 253), Regs(127, 1, 255, 0)},
       flags \in {PowerOnFlags, AllFlags}, halted \in BOOLEAN :
        ScenarioInit(
            MakeCPU(Cells(<<<<pc, opcode>>, <<wrap16(pc + 1), operand>>,
                            <<511, 170>>>>),
                    pc, flags, reg, halted),
            opcode)

StepExec ==
    /\ op = <<>>
    /\ Applied("exec", exec(cpu), NoArg)

StepNext == StepExec

SpecStep == StepInit /\ [][StepNext]_vars

\* C2: a step whose opcode has no descriptor ends in a panic and leaves
\* the registers, the flags, the program counter, halted, every memory
\* cell, the log and the cycle count as they were.
C2_UnresolvedOpcodeIsFatal ==
    (/\ op = <<"exec">>
     /\ pre.pc < MemLen
     /\ MemAt(pre, pre.pc) \notin Described)
    => cpu = [pre EXCEPT !.panicked = TRUE]

\* the step of 0xA9 on a CPU with A = 0x7F has panicked
C2_Witness ==
    /\ op = <<"exec">>
    /\ MemAt(pre, pre.pc) = 169
    /\ pre.reg.a = 127
    /\ ~pre.panicked
    /\ cpu.panicked

---------------------------------------------------------------------------
(* SpecStack: a 16-bit push and the 16-bit pop that follows it *)

Pushed16 == Near16(0) \cup Near16(256) \cup {4660, 65280}

\* the byte above the stack pointer is either 0 or 0xEE
StackInit ==
    \E sp \in Byte, v \in Pushed16, above \in {0, 238} :
        \E c \in Builds(MakeCPU(Cells(<<<<256 + wrap8(sp + 1), above>>>>),
                                 1536, PowerOnFlags, Regs(0, 0, 0, sp),
                                 FALSE)) :
            ScenarioInit(c, v)

StackPush16 ==
    /\ op = <<>>
    /\ Applied("stack_push", stack_push(cpu, start.arg), start.arg)

StackPop16 ==
    /\ op = <<"stack_push">>
    /\ LET r == stack_pop16(cpu) IN Applied("stack_pop16", r.c, r.v)

StackNext == StackPush16 \/ StackPop16

SpecStack == StackInit /\ [][StackNext]_vars

\* C6: stack_push of a 16-bit value v writes two bytes, the high byte at
\* 0x100 + sp and the low byte below it, and moves sp down by two; the
\* stack_pop16 that follows returns v and restores sp.
C6_Push16Pop16RoundTrip ==
    LET v == start.arg
        sp == start.cpu.reg.sp
    IN  /\ op = <<"stack_push">>
           => /\ cpu.reg.sp = wrap8(sp + U8 - 2)
              /\ MemAt(cpu, 256 + sp) = v \div 256
              /\ MemAt(cpu, 256 + wrap8(sp + U8 - 1)) = v % 256
        /\ op = <<"stack_push", "stack_pop16">>
           => /\ arg = v
              /\ cpu.reg.sp = sp

---------------------------------------------------------------------------
(* SpecCall: a JSR at P with the RTS it leads to at T.  CallExec is the   *)
(* step, CPU::exec, on that memory.  CallJsr and CallRts are what the     *)
(* step is built from, called one after the other: the operand            *)
(* resolution, Addrmode::unpack, and then the handler.                    *)

CallPcs == Near16(0) \cup Near16(256) \cup Near16(1536)

CallTargets == {0, 1536, 1791, 4660}

CallInit ==
    \E P \in CallPcs, T \in CallTargets, sp \in Near8(0) \cup {253},
       above \in {0, 238} :
        \E c \in Builds(MakeCPU(Cells(<<<<P, OpcodeOf("jsr", "Abs")>>,
                                       <<wrap16(P + 1), T % 256>>,
                                       <<wrap16(P + 2), T \div 256>>,
                                       <<256 + wrap8(sp + 1), above>>,
                                       <<T, OpcodeOf("rts", "Impl")>>>>),
                                 P, PowerOnFlags, Regs(0, 0, 0, sp), FALSE)) :
            ScenarioInit(c, T)

\* CPU::exec, once on the JSR and once more where that step has left pc
CallExec ==
    /\ op \in {<<>>, <<"exec">>}
    /\ ~cpu.panicked
    /\ Applied("exec", exec(cpu), start.arg)

\* Addrmode::Abs.unpack, then jsr on the operand it yields
CallJsr ==
    /\ op = <<>>
    /\ LET u == unpack("Abs", cpu)
       IN  Applied("jsr", IF u.c.panicked THEN u.c ELSE jsr(u.d, u.c),
                   start.arg)

\* Addrmode::Impl.unpack, then rts on the operand it yields
CallRts ==
    /\ op = <<"jsr">>
    /\ ~cpu.panicked
    /\ LET u == unpack("Impl", cpu)
       IN  Applied("rts", IF u.c.panicked THEN u.c ELSE rts(u.d, u.c),
                   start.arg)

CallNext == CallExec \/ CallJsr \/ CallRts

SpecCall == CallInit /\ [][CallNext]_vars

\* C5: after the step of a JSR at P and the step of the matching RTS the
\* program counter is P + 3 and the stack pointer is what it was before
\* the JSR.  Stated for the steps themselves, which have to complete, and
\* for the operand resolutions and handlers the two steps run, after which
\* the increment that closes a step (pc + 1) has to give P + 3.
C5_JsrRtsReturnsBehindJsr ==
    /\ (op # <<>> /\ op[1] = "exec")
       => /\ ~cpu.panicked
          /\ Len(op) = 2 => /\ cpu.pc = wrap16(start.cpu.pc + 3)
                            /\ cpu.reg.sp = start.cpu.reg.sp
    /\ (op = <<"jsr", "rts">> /\ ~cpu.panicked)
       => /\ wrap16(cpu.pc + 1) = wrap16(start.cpu.pc + 3)
          /\ cpu.reg.sp = start.cpu.reg.sp

\* the 16-bit value whose high byte lies at stack index sp and whose low
\* byte lies one below it
StackWord(c, sp) ==
    MemAt(c, 256 + sp) * 256 + MemAt(c, 256 + ((sp + 255) % 256))

\* C19: the return address the step of a JSR at P pushes, as two bytes
\* with the high byte first, is P + 2: the address of the next instruction
\* minus one.  Stated for the step itself, which has to complete, and for
\* the operand resolution and handler the step runs.
C19_JsrPushesNextMinusOne ==
    /\ op = <<"exec">>
       => /\ ~cpu.panicked
          /\ StackWord(cpu, start.cpu.reg.sp) = (start.cpu.pc + 2) % 65536
    /\ (op = <<"jsr">> /\ ~cpu.panicked)
       => StackWord(cpu, start.cpu.reg.sp) = (start.cpu.pc + 2) % 65536

---------------------------------------------------------------------------
(* SpecBranch: a branch instruction at P.  BranchExec is the step,        *)
(* CPU::exec, on that memory.  BranchRun is what the step is built from:  *)
(* the operand resolution, Addrmode::Rel.unpack, and then the handler.    *)

Branches == {"bcc", "bcs", "beq", "bmi", "bne", "bpl", "bvc", "bvs"}

BranchPcs == Near16(0) \cup Near16(1536) \cup Near16(1792)

Displacements == Near8(0) \cup Near8(128)

BranchInit ==
    \E P \in BranchPcs, d \in Displacements, h \in Branches,
       cf \in BOOLEAN, zf \in BOOLEAN, nf \in BOOLEAN, vf \in BOOLEAN :
        ScenarioInit(
            MakeCPU(Cells(<<<<P, OpcodeOf(h, "Rel")>>,
                            <<wrap16(P + 1), d>>>>), P,
                    [PowerOnFlags EXCEPT !.carry = cf, !.zero = zf,
                                         !.negative = nf, !.overflow = vf],
                    Regs(0, 0, 0, 253), FALSE),
            [run |-> h, d |-> d])

\* CPU::exec on the branch
BranchExec ==
    /\ op = <<>>
    /\ Applied("exec", exec(cpu), start.arg)

\* Addrmode::Rel.unpack, then the branch handler on the operand it yields
BranchRun ==
    /\ op = <<>>
    /\ LET u == unpack("Rel", cpu)
       IN  Applied(start.arg.run,
                   IF u.c.panicked THEN u.c
                   ELSE run_handler(start.arg.run, u.d, u.c),
                   start.arg)

BranchNext == BranchExec \/ BranchRun

SpecBranch == BranchInit /\ [][BranchNext]_vars

\* the condition each branch tests
Taken(h, f) ==
    CASE h = "bcc" -> ~f.carry
      [] h = "bcs" -> f.carry
      [] h = "beq" -> f.zero
      [] h = "bmi" -> f.negative
      [] h = "bne" -> ~f.zero
      [] h = "bpl" -> ~f.negative
      [] h = "bvc" -> ~f.overflow
      [] h = "bvs" -> f.overflow

Page(adr) == adr \div 256

\* C7: the step of a branch at P with displacement d charges 0 cycles
\* when the branch is not taken, 1 when it is taken and P + 2 + d lies in
\* the page of P + 2, and 2 when it is taken and P + 2 + d lies in
\* another page.  Stated for the step itself, which has to complete, and
\* for the operand resolution and handler the step runs.
C7_BranchCycles ==
    LET next == wrap16(start.cpu.pc + 2)
        target == wrap16(next + U16 + as_i8(start.arg.d))
        charged == cpu.ticked - start.cpu.ticked
        due == IF ~Taken(start.arg.run, start.cpu.flags) THEN 0
               ELSE IF Page(target) = Page(next) THEN 1 ELSE 2
    IN  /\ op = <<"exec">> => (~cpu.panicked /\ charged = due)
        /\ (op = <<start.arg.run>> /\ ~cpu.panicked) => charged = due

---------------------------------------------------------------------------
(* SpecAlu: adc and sbc on every accumulator, operand and carry *)

AluInit ==
    \E a \in Byte, cf \in BOOLEAN :
        ScenarioInit(
            MakeCPU(Cells(<<<<32, 1>>>>), 1536,
                    [PowerOnFlags EXCEPT !.carry = cf],
                    Regs(a, 0, 0, 253), FALSE),
            NoArg)

AluOperands == {Immediate(w) : w \in Byte} \cup {Address(32)}

AluAdc(d) ==
    /\ op = <<>>
    /\ Applied("adc", adc(d, cpu), d)

AluSbc(d) ==
    /\ op = <<>>
    /\ Applied("sbc", sbc(d, cpu), d)

AluNext == \E d \in AluOperands : AluAdc(d) \/ AluSbc(d)

SpecAlu == AluInit /\ [][AluNext]_vars

\* the byte the operand d stands for on the CPU c
OperandValue(d, c) == default_unwrap(d, c).v

Bit7(v) == v >= 128

\* C8: adc leaves A = (a + w + c) mod 256, carry = (a + w + c > 255),
\* zero and negative from the result, and overflow exactly when a and w
\* have the same sign and the result has the other sign; 0x7F + 0x01
\* without carry gives 0x80 with carry and zero clear, overflow and
\* negative set.
C8_Adc ==
    op = <<"adc">>
    => LET a == pre.reg.a
           w == OperandValue(arg, pre)
           c == IF pre.flags.carry THEN 1 ELSE 0
           r == (a + w + c) % 256
       IN  /\ cpu.reg.a = r
           /\ cpu.flags.carry = (a + w + c > 255)
           /\ cpu.flags.zero = (r = 0)
           /\ cpu.flags.negative = Bit7(r)
           /\ cpu.flags.overflow = (Bit7(a) = Bit7(w) /\ Bit7(r) # Bit7(a))
           /\ (a = 127 /\ w = 1 /\ c = 0)
              => /\ cpu.reg.a = 128
                 /\ ~cpu.flags.carry
                 /\ cpu.flags.overflow
                 /\ cpu.flags.negative
                 /\ ~cpu.flags.zero

\* adc of 0x7F and #$01 with carry clear has run
C8_Witness ==
    /\ op = <<"adc">>
    /\ pre.reg.a = 127
    /\ arg = Immediate(1)
    /\ ~pre.flags.carry
    /\ cpu.reg.a = 128
    /\ cpu.flags.overflow

\* C9: sbc leaves A = (a - q - (1 - c)) mod 256, carry set exactly when
\* no borrow occurred (a >= q + (1 - c)), zero and negative from the
\* result; 0x00 - 0x01 with carry set gives 0xFF with carry clear and
\* negative set.
C9_Sbc ==
    op = <<"sbc">>
    => LET a == pre.reg.a
           q == OperandValue(arg, pre)
           c == IF pre.flags.carry THEN 1 ELSE 0
           r == (a - q - (1 - c) + 512) % 256
       IN  /\ cpu.reg.a = r
           /\ cpu.flags.carry = (a >= q + (1 - c))
           /\ cpu.flags.zero = (r = 0)
           /\ cpu.flags.negative = Bit7(r)
           /\ (a = 0 /\ q = 1 /\ c = 1)
              => /\ cpu.reg.a = 255
                 /\ ~cpu.flags.carry
                 /\ cpu.flags.negative

\* sbc of 0x00 and #$01 with carry set has run
C9_Witness ==
    /\ op = <<"sbc">>
    /\ pre.reg.a = 0
    /\ arg = Immediate(1)
    /\ pre.flags.carry
    /\ cpu.reg.a = 255
    /\ ~cpu.flags.carry

---------------------------------------------------------------------------
(* SpecFlags: the status byte is unpacked and packed in turn *)

\* how many conversions a scenario chains
MaxConversions == 3

\* either every flag record with the byte 0, or every byte with the
\* power-on flags
FlagsInit ==
    \E f \in Flag, v \in Byte :
        /\ f = PowerOnFlags \/ v = 0
        /\ ScenarioInit(
               MakeCPU(ZeroMemory, 1536, f, Regs(0, 0, 0, 253), FALSE), v)

\* Flag::from(arg)
FlagsFromU8 ==
    /\ Len(op) < MaxConversions
    /\ Applied("from_u8", [cpu EXCEPT !.flags = Flag_from_u8(arg)], arg)

\* u8::from(cpu.flags)
FlagsIntoU8 ==
    /\ Len(op) < MaxConversions
    /\ Applied("into_u8", cpu, u8_from_Flag(cpu.flags))

FlagsNext == FlagsFromU8 \/ FlagsIntoU8

SpecFlags == FlagsInit /\ [][FlagsNext]_vars

\* C10: packing the flags unpacked from a byte v gives v on bits 0-3, 6
\* and 7 with bit 5 set; unpacking the packed byte of a flag record f
\* gives f back; and packing, unpacking and packing f again gives the
\* byte the first packing gave.
C10_FlagPackingRoundTrips ==
    /\ op = <<"from_u8", "into_u8">>
       => /\ arg % 16 = start.arg % 16
          /\ arg \div 64 = start.arg \div 64
          /\ (arg \div 32) % 2 = 1
    /\ op = <<"into_u8", "from_u8">>
       => cpu.flags = start.cpu.flags
    /\ op = <<"into_u8", "from_u8", "into_u8">>
       => /\ cpu.flags = start.cpu.flags
          /\ arg = u8_from_Flag(start.cpu.flags)

\* the byte 0b0101_0000 has been unpacked and packed to 0b0111_0000
C10_Witness ==
    /\ op = <<"from_u8", "into_u8">>
    /\ start.arg = 80
    /\ arg = 112

---------------------------------------------------------------------------
(* SpecBus: reads and writes of the bus of a new CPU, src/bus.rs *)

\* the addresses tried: both ends of the address space and the load origin
BusAddrs == {0, 1536, 65534, 65535}

BusBytes == {0, 1, 255}

\* how many bus operations one scenario makes
MaxBusOps == 3

BusOp(f, a, b) == [f |-> f, a |-> a, b |-> b]

\* the byte the trace of operations wrote last at address a, 0 if none did
RECURSIVE LastWritten(_, _)
LastWritten(trace, a) ==
    IF trace = <<>> THEN 0
    ELSE LET last == trace[Len(trace)]
         IN  IF last.f = "write" /\ last.a = a THEN last.b
             ELSE LastWritten(SubSeq(trace, 1, Len(trace) - 1), a)

BusInit == ScenarioInit(CPU_new, NoArg)

BusWrite(a, b) ==
    /\ ~cpu.panicked
    /\ Len(op) < MaxBusOps
    /\ Applied(BusOp("write", a, b), bus_write(cpu, a, b), b)

BusRead(a) ==
    /\ ~cpu.panicked
    /\ Len(op) < MaxBusOps
    /\ LET r == bus_read(cpu, a)
       IN  Applied(BusOp("read", a, 0), r.c, r.v)

BusNext ==
    \/ \E a \in BusAddrs, b \in BusBytes : BusWrite(a, b)
    \/ \E a \in BusAddrs : BusRead(a)

SpecBus == BusInit /\ [][BusNext]_vars

\* C11: every read and every write at every 16-bit address, 0xFFFF
\* included, succeeds; a read returns the byte last written at its address
\* (0 if none was) and changes nothing; a write stores its byte and changes
\* no other cell.
C11_BusTotal ==
    op # <<>> =>
        LET last == op[Len(op)]
            cells == (DOMAIN cpu.bus.memory \cup DOMAIN pre.bus.memory) \ {last.a}
        IN  /\ ~cpu.panicked
            /\ \A x \in cells : MemAt(cpu, x) = MemAt(pre, x)
            /\ last.f = "read" =>
                   /\ arg = LastWritten(op, last.a)
                   /\ MemAt(cpu, last.a) = MemAt(pre, last.a)
            /\ last.f = "write" => MemAt(cpu, last.a) = last.b

---------------------------------------------------------------------------
(* SpecLoad: CPU::load and CPU::load_rom_file on sampled CPU states *)

\* the load origin
LoadOrigin == 1536

\* a long image: zero but for its first and last byte and for the two bytes
\* that land on the reset vector, which are v and 0x06
LongImage(n, v) ==
    LET bytes == [i \in 1 .. n |->
                    IF LoadOrigin + i - 1 = 65532 THEN v
                    ELSE IF LoadOrigin + i - 1 = 65533 THEN 6
                    ELSE IF i = 1 THEN 169
                    ELSE IF i = n THEN 234
                    ELSE 0]
    IN  bytes \o <<>>

\* image lengths around the largest one the memory array takes
LongLens == {MemLen - LoadOrigin + k : k \in (0 - Window) .. Window}

LoadImages ==
    {<<>>, <<0>>, EzCode} \cup {LongImage(n, v) : n \in LongLens, v \in {0, 170}}

LoadFiles ==
    {[found |-> FALSE, data |-> <<>>]}
        \cup {[found |-> TRUE, data |-> image] : image \in LoadImages}

LoadMemories ==
    {ZeroMemory,
     Cells(<<<<32, 5>>, <<1536, 255>>, <<1540, 7>>, <<65532, 52>>, <<65533, 18>>>>)}

LoadInit ==
    \E memory \in LoadMemories, pc \in {0, 4660},
       flags \in {PowerOnFlags, AllFlags},
       reg \in {CPU_new.reg, Regs(1, 2, 3, 128)} :
        ScenarioInit(MakeCPU(memory, pc, flags, reg, FALSE), NoArg)

\* c.load(data); load returns the unit value unless it panics
LoadImage(data) ==
    /\ op = <<>>
    /\ LET c1 == load(cpu, data)
       IN  Applied("load", c1,
                   [found |-> TRUE, data |-> data,
                    result |-> IF c1.panicked THEN "none" ELSE "unit"])

\* c.load_rom_file(path)
LoadRomFile(file) ==
    /\ op = <<>>
    /\ LET r == load_rom_file(cpu, file)
       IN  Applied("load_rom_file", r.c,
                   [found |-> file.found, data |-> file.data, result |-> r.v])

LoadNext ==
    \/ \E data \in LoadImages : LoadImage(data)
    \/ \E file \in LoadFiles : LoadRomFile(file)

SpecLoad == LoadInit /\ [][LoadNext]_vars

\* C12: after the load of an image that fits between the origin 0x0600 and
\* the end of the 64 KiB address space, the load has succeeded, every cell
\* origin + i (the two reset-vector cells aside) holds image[i], the cells
\* 0xFFFC and 0xFFFD hold the low and the high byte of the origin, pc is the
\* origin, and registers and flags are those of a new CPU.
C12_LoadPlacesImage ==
    (op # <<>> /\ arg.found /\ LoadOrigin + Len(arg.data) <= U16) =>
        /\ ~cpu.panicked
        /\ \A i \in 1 .. Len(arg.data) :
               (LoadOrigin + i - 1) \notin {65532, 65533}
                   => MemAt(cpu, LoadOrigin + i - 1) = arg.data[i]
        /\ MemAt(cpu, 65532) = LoadOrigin % 256
        /\ MemAt(cpu, 65533) = LoadOrigin \div 256
        /\ cpu.pc = LoadOrigin
        /\ cpu.reg = CPU_new.reg
        /\ cpu.flags = CPU_new.flags

\* C13: the load of an image too long to fit between the origin and the end
\* of the address space returns a failure value to its caller, without a
\* panic, and leaves memory, registers, flags and pc as they were.
C13_OversizedLoadIsAFailure ==
    (op # <<>> /\ arg.found /\ LoadOrigin + Len(arg.data) > U16) =>
        /\ ~cpu.panicked
        /\ arg.result = "Err"
        /\ cpu = pre

---------------------------------------------------------------------------
(* SpecReset: CPU::reset on sampled CPU states *)

VectorBytes == Near8(0) \cup {6, 52}

ResetInit ==
    \E lo \in VectorBytes, hi \in VectorBytes, pc \in {0, 4660},
       flags \in Flag, reg \in {CPU_new.reg, Regs(1, 2, 3, 128)},
       halted \in BOOLEAN :
        ScenarioInit(
            MakeCPU(Cells(<<<<32, 5>>, <<1536, 169>>, <<65532, lo>>, <<65533, hi>>>>),
                    pc, flags, reg, halted),
            NoArg)

ResetCall ==
    /\ op = <<>>
    /\ Applied("reset", reset(cpu), NoArg)

ResetNext == ResetCall

SpecReset == ResetInit /\ [][ResetNext]_vars

\* C14: reset, from every CPU state, leaves A = X = Y = 0, the stack pointer
\* at 0xFD, the flags as CPU::new makes them and pc = memory[0xFFFC] +
\* 256 * memory[0xFFFD]; it changes no memory cell.
C14_Reset ==
    op = <<"reset">> =>
        /\ ~cpu.panicked
        /\ cpu.reg.a = 0 /\ cpu.reg.x = 0 /\ cpu.reg.y = 0
        /\ cpu.reg.sp = 253
        /\ cpu.flags = CPU_new.flags
        /\ cpu.pc = MemAt(pre, 65532) + 256 * MemAt(pre, 65533)
        /\ cpu.bus.memory = pre.bus.memory

\* a reset of a CPU with dirty registers and flags and a reset vector whose
\* two bytes differ
C14_Witness ==
    /\ op = <<"reset">>
    /\ pre.reg.a # 0 /\ pre.reg.sp # 253
    /\ pre.flags # CPU_new.flags
    /\ MemAt(pre, 65532) # MemAt(pre, 65533)
    /\ cpu.pc > 255 /\ cpu.pc # pre.pc

---------------------------------------------------------------------------
(* SpecLd: the handlers lda, ldx and ldy on sampled CPU states *)

Loads == {"lda", "ldx", "ldy"}

\* the operand: every immediate byte, and the address of a memory cell
LdOperands == {Immediate(v) : v \in Byte} \cup {Address(32), Address(33)}

LdInit ==
    \E reg \in {CPU_new.reg, Regs(1, 2, 3, 253), Regs(128, 129, 130, 253)},
       flags \in {PowerOnFlags, AllFlags} :
        ScenarioInit(MakeCPU(Cells(<<<<32, 128>>>>), 1536, flags, reg, FALSE),
                     NoArg)

\* (i.run)(d, cpu) for one of the three handlers
LdRun(h, d) ==
    /\ op = <<>>
    /\ Applied(h, run_handler(h, d, cpu), d)

LdNext == \E h \in Loads, d \in LdOperands : LdRun(h, d)

SpecLd == LdInit /\ [][LdNext]_vars

\* the register a load handler targets
LdTarget(h, c) ==
    CASE h = "lda" -> c.reg.a
      [] h = "ldx" -> c.reg.x
      [] h = "ldy" -> c.reg.y

\* C15: after lda, ldx or ldy with operand value v the target register holds
\* v, the zero flag is (v = 0) and the negative flag is bit 7 of v.
C15_LoadSetsZeroNegative ==
    (op # <<>> /\ op[1] \in Loads) =>
        LET v == OperandValue(arg, pre)
        IN  /\ ~cpu.panicked
            /\ LdTarget(op[1], cpu) = v
            /\ cpu.flags.zero = (v = 0)
            /\ cpu.flags.negative = (v >= 128)

---------------------------------------------------------------------------
(* SpecShift: the handlers asl, lsr, rol and ror on sampled CPU states *)

Shifts == {"asl", "lsr", "rol", "ror"}

\* the operand: every byte (as the accumulator mode hands it over), and the
\* address of a memory cell
ShiftOperands == {Immediate(w) : w \in Byte} \cup {Address(32)}

ShiftInit ==
    \E a \in {0, 85}, carry \in BOOLEAN, flags \in {PowerOnFlags, AllFlags} :
        ScenarioInit(
            MakeCPU(Cells(<<<<32, 129>>>>), 1536,
                    [flags EXCEPT !.carry = carry], Regs(a, 2, 3, 253), FALSE),
            NoArg)

\* (i.run)(d, cpu) for one of the four handlers
ShiftRun(h, d) ==
    /\ op = <<>>
    /\ Applied(h, run_handler(h, d, cpu), d)

ShiftNext == \E h \in Shifts, d \in ShiftOperands : ShiftRun(h, d)

SpecShift == ShiftInit /\ [][ShiftNext]_vars

\* C16: with operand w and carry c before, the carry after is the bit
\* shifted out (bit 7 of w for asl and rol, bit 0 for lsr and ror) and the
\* result, which the handler leaves in the accumulator, is (2w) mod 256 for
\* asl, w div 2 for lsr, ((2w) mod 256) + c for rol and (w div 2) + 128c
\* for ror.
C16_ShiftRotate ==
    (op # <<>> /\ op[1] \in Shifts) =>
        LET w == OperandValue(arg, pre)
            c == IF pre.flags.carry THEN 1 ELSE 0
            h == op[1]
        IN  /\ ~cpu.panicked
            /\ h \in {"asl", "rol"} => cpu.flags.carry = (w \div 128 = 1)
            /\ h \in {"lsr", "ror"} => cpu.flags.carry = (w % 2 = 1)
            /\ h = "asl" => cpu.reg.a = (2 * w) % 256
            /\ h = "lsr" => cpu.reg.a = w \div 2
            /\ h = "rol" => cpu.reg.a = ((2 * w) % 256) + c
            /\ h = "ror" => cpu.reg.a = (w \div 2) + 128 * c

\* a rotate with the carry set and an operand whose outgoing bit is clear,
\* and an asl of 0x7F, whose doubled value 0xFE lies just below the carry
\* threshold of the handler
C16_Witness ==
    /\ op # <<>>
    /\ \/ /\ op[1] = "rol" /\ pre.flags.carry
          /\ OperandValue(arg, pre) < 128 /\ ~cpu.flags.carry
       \/ /\ op[1] = "asl" /\ OperandValue(arg, pre) = 127

\* C25: after asl, lsr, rol or ror, for every operand and carry before, the
\* zero and negative flags describe the accumulator the handler has
\* written: zero = (A = 0) and negative = bit 7 of A; after lsr negative is
\* false.
C25_ShiftFlagsDescribeResult ==
    (op # <<>> /\ op[1] \in Shifts /\ ~cpu.panicked) =>
        /\ cpu.flags.zero = (cpu.reg.a = 0)
        /\ cpu.flags.negative = (cpu.reg.a >= 128)
        /\ op[1] = "lsr" => ~cpu.flags.negative

---------------------------------------------------------------------------
(* SpecCmp: the handlers cmp, cpx and cpy on sampled CPU states *)

Compares == {"cmp", "cpx", "cpy"}

CmpOperands == {Immediate(w) : w \in Byte} \cup {Address(32)}

\* the three registers take every byte value, and differ from each other
CmpInit ==
    \E a \in Byte, flags \in {PowerOnFlags, AllFlags} :
        ScenarioInit(
            MakeCPU(Cells(<<<<32, 129>>>>), 1536, flags,
                    Regs(a, wrap8(a + 85), wrap8(a + 170), 253), FALSE),
            NoArg)

\* (i.run)(d, cpu) for one of the three handlers
CmpRun(h, d) ==
    /\ op = <<>>
    /\ Applied(h, run_handler(h, d, cpu), d)

CmpNext == \E h \in Compares, d \in CmpOperands : CmpRun(h, d)

SpecCmp == CmpInit /\ [][CmpNext]_vars

\* the register a compare handler reads
CmpRegister(h, c) ==
    CASE h = "cmp" -> c.reg.a
      [] h = "cpx" -> c.reg.x
      [] h = "cpy" -> c.reg.y

\* C17: after cmp, cpx or cpy with operand w against the register value r,
\* zero is (w = r), carry is (r >= w) and negative is bit 7 of
\* (r - w) mod 256; registers, memory and the other flags are unchanged.
C17_Compare ==
    (op # <<>> /\ op[1] \in Compares) =>
        LET w == OperandValue(arg, pre)
            r == CmpRegister(op[1], pre)
        IN  /\ ~cpu.panicked
            /\ cpu.flags.zero = (w = r)
            /\ cpu.flags.carry = (r >= w)
            /\ cpu.flags.negative = (((r - w + 256) % 256) \div 128 = 1)
            /\ cpu.reg = pre.reg
            /\ cpu.bus.memory = pre.bus.memory
            /\ \A f \in FlagNames \ {"zero", "carry", "negative"} :
                   cpu.flags[f] = pre.flags[f]
            /\ cpu.pc = pre.pc

\* a compare of a register below its operand: the difference wraps, and the
\* three flags all change
C17_Witness ==
    /\ op # <<>> /\ op[1] = "cpx"
    /\ pre.reg.x < OperandValue(arg, pre)
    /\ pre.flags.carry /\ ~cpu.flags.carry
    /\ ~cpu.flags.negative /\ pre.flags.negative

---------------------------------------------------------------------------
(* SpecStatus: the handlers php and plp on sampled CPU states *)

\* the byte that lies above the stack pointer at the start
StackBytes == {0, 255}

StatusInit ==
    \E flags \in Flag, sp \in Byte, above \in StackBytes :
        \E c \in Builds(MakeCPU(Cells(<<<<256 + wrap8(sp + 1), above>>>>),
                                 1536, flags, Regs(1, 2, 3, sp), FALSE)) :
            ScenarioInit(c, NoArg)

StatusPhp ==
    /\ op = <<>>
    /\ Applied("php", php(Immediate(0), cpu), NoArg)

StatusPlp ==
    /\ op \in {<<>>, <<"php">>}
    /\ Applied("plp", plp(Immediate(0), cpu), NoArg)

StatusNext == StatusPhp \/ StatusPlp

SpecStatus == StatusInit /\ [][StatusNext]_vars

\* bit n of byte v
BitOf(v, n) == (v \div (2 ^ n)) % 2 = 1

\* C18: php pushes the packed status with bits 4 and 5 set, whatever the
\* break flag; plp unpacks the popped byte with bits 4 and 5 cleared; php
\* followed by plp restores carry, zero, interrupt-disable, decimal,
\* overflow and negative, leaves the break flag false and restores the
\* stack pointer.
C18_StatusPushPull ==
    /\ op = <<"php">> =>
           LET f == pre.flags
           IN  /\ ~cpu.panicked
               /\ MemAt(cpu, 256 + pre.reg.sp) =
                      bool_u8(f.carry) + 2 * bool_u8(f.zero)
                      + 4 * bool_u8(f.interrupt_disable) + 8 * bool_u8(f.decimal)
                      + 16 + 32
                      + 64 * bool_u8(f.overflow) + 128 * bool_u8(f.negative)
               /\ cpu.reg.sp = (pre.reg.sp + 255) % 256
               /\ cpu.flags = pre.flags
    /\ (op # <<>> /\ op[Len(op)] = "plp") =>
           LET p == MemAt(pre, 256 + ((pre.reg.sp + 1) % 256))
           IN  /\ ~cpu.panicked
               /\ cpu.flags = [carry |-> BitOf(p, 0), zero |-> BitOf(p, 1),
                               interrupt_disable |-> BitOf(p, 2),
                               decimal |-> BitOf(p, 3), b |-> FALSE,
                               overflow |-> BitOf(p, 6), negative |-> BitOf(p, 7)]
               /\ cpu.reg.sp = (pre.reg.sp + 1) % 256
    /\ op = <<"php", "plp">> =>
           /\ \A f \in FlagNames \ {"b"} : cpu.flags[f] = start.cpu.flags[f]
           /\ ~cpu.flags.b
           /\ cpu.reg.sp = start.cpu.reg.sp

\* php then plp from a state with the break flag set and the stack pointer
\* at 0x00, where the push wraps it to 0xFF
C18_Witness ==
    /\ op = <<"php", "plp">>
    /\ start.cpu.flags.b /\ start.cpu.flags.carry /\ ~start.cpu.flags.zero
    /\ start.cpu.reg.sp = 0
    /\ pre.reg.sp = 255

---------------------------------------------------------------------------
(* SpecMode: Addrmode::unpack of every mode, and page_crossed, on sampled *)
(* CPU states with the instruction at 0x0600                              *)

IndexBytes == Near8(0) \cup {128}

\* the second operand byte: the high byte of an absolute base
HighBytes == {0, 6, 255}

\* the two bytes of the zero-page pointer that the first operand byte
\* selects; the pointer that the operand byte plus x selects holds 0x1234
\* where the first leaves room, and cell 0x0100 holds 0x77
PointerLows == {0, 1, 254, 255}
PointerHighs == {0, 6, 255}

\* how far page_crossed's second address lies from its first
PageSteps == {0, 1, 255, 256, 65280, 65535}

ModeInit ==
    \E b1 \in IndexBytes, b2 \in HighBytes, x \in IndexBytes, y \in IndexBytes,
       plo \in PointerLows, phi \in PointerHighs :
        ScenarioInit(
            MakeCPU(Cells(<<<<1537, b1>>, <<1538, b2>>,
                            <<b1, plo>>, <<wrap8(b1 + 1), phi>>,
                            <<wrap8(b1 + x), 52>>, <<wrap8(b1 + x + 1), 18>>,
                            <<256, 119>>>>),
                    1536, PowerOnFlags, Regs(85, x, y, 253), FALSE),
            NoArg)

\* i.mode.unpack(self)
ModeUnpack(mode) ==
    /\ op = <<>>
    /\ LET r == unpack(mode, cpu)
       IN  Applied(mode, r.c, [d |-> r.d, pagecross |-> r.pagecross])

\* page_crossed(a1, a2), a1 being the 16-bit word behind the opcode
ModePageCrossed(k) ==
    /\ op = <<>>
    /\ LET a1 == join_bytes(MemAt(cpu, 1537), MemAt(cpu, 1538))
           a2 == wrap16(a1 + k)
       IN  Applied("page_crossed", cpu,
                   [a1 |-> a1, a2 |-> a2, r |-> page_crossed(a1, a2)])

\* self.i8_operand()
ModeI8Operand ==
    /\ op = <<>>
    /\ LET r == i8_operand(cpu)
       IN  Applied("i8_operand", r.c, r.v)

ModeNext ==
    \/ \E mode \in Addrmode : ModeUnpack(mode)
    \/ \E k \in PageSteps : ModePageCrossed(k)
    \/ ModeI8Operand

SpecMode == ModeInit /\ [][ModeNext]_vars

\* C20: page_crossed(a1, a2) is true exactly when the high bytes of a1 and
\* a2 differ; absolute-X, absolute-Y and indirect-Y return the address
\* (base + index) mod 65536 and report a page cross exactly when its high
\* byte differs from the base's; every other mode reports none.
C20_PageCross ==
    op # <<>> =>
        /\ op[1] = "page_crossed" =>
               arg.r = ((arg.a1 \div 256) # (arg.a2 \div 256))
        /\ (op[1] \in Addrmode /\ ~cpu.panicked) =>
               LET b1 == MemAt(pre, pre.pc + 1)
                   word == b1 + 256 * MemAt(pre, pre.pc + 2)
                   ptr == MemAt(pre, b1) + 256 * MemAt(pre, (b1 + 1) % 256)
                   base == IF op[1] = "IndY" THEN ptr ELSE word
                   index == IF op[1] = "AbsX" THEN pre.reg.x ELSE pre.reg.y
                   addr == (base + index) % 65536
               IN  IF op[1] \in {"AbsX", "AbsY", "IndY"}
                   THEN /\ arg.d = Address(addr)
                        /\ arg.pagecross = ((addr \div 256) # (base \div 256))
                   ELSE ~arg.pagecross

\* an indirect-Y operand whose indexed address wraps past 0xFFFF
C20_Witness ==
    /\ op # <<>>
    /\ op[1] = "IndY"
    /\ arg.pagecross
    /\ arg.d.x < pre.reg.y

---------------------------------------------------------------------------
(* SpecTransfer: the step, CPU::exec, of a jump, a subroutine call or a   *)
(* branch                                                                 *)

TransferPcs == Near16(0) \cup Near16(1536) \cup {65533}

\* the first operand byte: a low address byte, or a displacement
TransferLows == Near8(0) \cup Near8(128)

TransferHighs == {0, 6, 255}

\* the control transfers that take a target
TransferOps == {t \in ControlOps : t.run # "rts"}

TransferInit ==
    \E P \in TransferPcs, t \in TransferOps, b1 \in TransferLows,
       b2 \in TransferHighs, flags \in {PowerOnFlags, AllFlags},
       sp \in {0, 253} :
        ScenarioInit(
            MakeCPU(Cells(<<<<P, t.opcode>>,
                            <<wrap16(P + 1), b1>>, <<wrap16(P + 2), b2>>,
                            <<join_bytes(b1, b2), 52>>,
                            <<wrap16(join_bytes(b1, b2) + 1), 18>>>>),
                    P, flags, Regs(0, 0, 0, sp), FALSE),
            t)

\* CPU::exec on the instruction at P
TransferExec ==
    /\ op = <<>>
    /\ Applied("exec", exec(cpu), start.arg)

TransferNext == TransferExec

SpecTransfer == TransferInit /\ [][TransferNext]_vars

\* the 16-bit word at adr, low byte first
WordAt(c, adr) == MemAt(c, adr) + 256 * MemAt(c, (adr + 1) % 65536)

\* C21: the step of a control transfer completes, and after the step of a
\* jmp or a jsr the program counter is the resolved address T, T = 0x0000
\* included; after the step of a branch at P with signed displacement d it
\* is (P + 2 + d) mod 65536 when the branch is taken and P + 2 when it is
\* not.
C21_TransferLandsOnTarget ==
    op = <<"exec">> =>
        LET P == pre.pc
            t == start.arg
            word == WordAt(pre, (P + 1) % 65536)
            T == IF t.mode = "Ind" THEN WordAt(pre, word) ELSE word
            b == MemAt(pre, (P + 1) % 65536)
            d == IF b < 128 THEN b ELSE b - 256
        IN  /\ ~cpu.panicked
            /\ cpu.pc = IF t.run \in {"jmp", "jsr"} THEN T
                        ELSE IF Taken(t.run, pre.flags)
                        THEN (P + 2 + d + 65536) % 65536
                        ELSE (P + 2) % 65536

---------------------------------------------------------------------------
(* SpecStack8: one-byte pushes and pops, through CPU::stack_push and      *)
(* CPU::stack_pop and through the handlers pha and pla                    *)

PushedBytes == {0, 1, 255}

Stack8Init ==
    \E sp \in Byte, a \in {0, 66, 128}, above \in {0, 255} :
        \E c \in Builds(MakeCPU(Cells(<<<<256 + wrap8(sp + 1), above>>,
                                       <<32, 5>>>>),
                                 1536, PowerOnFlags, Regs(a, 2, 3, sp),
                                 FALSE)) :
            ScenarioInit(c, NoArg)

StackOp(f, b) == [f |-> f, b |-> b]

\* self.stack_push(v as u16) for a byte v
Stack8Push(v) ==
    /\ Len(op) < 2
    /\ Applied(StackOp("push", v), stack_push(cpu, v), v)

\* self.stack_pop()
Stack8Pop ==
    /\ Len(op) < 2
    /\ LET r == stack_pop(cpu)
       IN  Applied(StackOp("pop", r.v), r.c, r.v)

Stack8Pha ==
    /\ Len(op) < 2
    /\ Applied(StackOp("push", cpu.reg.a), pha(Immediate(0), cpu), cpu.reg.a)

Stack8Pla ==
    /\ Len(op) < 2
    /\ LET c1 == pla(Immediate(0), cpu)
       IN  Applied(StackOp("pop", c1.reg.a), c1, c1.reg.a)

Stack8Next ==
    \/ \E v \in PushedBytes : Stack8Push(v)
    \/ Stack8Pop
    \/ Stack8Pha
    \/ Stack8Pla

SpecStack8 == Stack8Init /\ [][Stack8Next]_vars

\* C22: a one-byte push writes the byte at 0x0100 + sp and then sets sp to
\* (sp - 1) mod 256; a pop sets sp to (sp + 1) mod 256 and then reads
\* 0x0100 + sp; no cell outside 0x0100..0x01FF is touched; a push followed
\* by a pop returns the pushed byte and restores sp.
C22_StackDiscipline ==
    op # <<>> =>
        LET last == op[Len(op)]
            top == 256 + pre.reg.sp
            cells == DOMAIN cpu.bus.memory \cup DOMAIN pre.bus.memory
        IN  /\ ~cpu.panicked
            /\ last.f = "push" =>
                   /\ MemAt(cpu, top) = last.b
                   /\ cpu.reg.sp = (pre.reg.sp + 255) % 256
                   /\ \A x \in cells \ {top} : MemAt(cpu, x) = MemAt(pre, x)
                   /\ top \in 256 .. 511
            /\ last.f = "pop" =>
                   /\ cpu.reg.sp = (pre.reg.sp + 1) % 256
                   /\ last.b = MemAt(pre, 256 + cpu.reg.sp)
                   /\ cpu.bus.memory = pre.bus.memory
            /\ (Len(op) = 2 /\ op[1].f = "push" /\ op[2].f = "pop") =>
                   /\ op[2].b = op[1].b
                   /\ cpu.reg.sp = start.cpu.reg.sp

\* a push at sp = 0x00, which wraps the stack pointer to 0xFF, and the pop
\* that brings the byte back
C22_Witness ==
    /\ Len(op) = 2
    /\ op[1].f = "push" /\ op[2].f = "pop"
    /\ start.cpu.reg.sp = 0
    /\ pre.reg.sp = 255
    /\ op[2].b = 255

---------------------------------------------------------------------------
(* SpecStore: the handlers inc, dec, inx, iny, dex, dey, sta, stx and sty *)
(* on sampled CPU states                                                  *)

MemorySteps == {"inc", "dec"}
RegisterSteps == {"inx", "iny", "dex", "dey"}
Stores == {"sta", "stx", "sty"}

\* the cells addressed; cell 32 takes every byte value, cell 33 holds 9
StoreAddrs == {32, 33, 511}

\* cell 32 and the registers X and Y take every byte value
StoreInit ==
    \E m \in Byte, flags \in {PowerOnFlags, AllFlags} :
        ScenarioInit(
            MakeCPU(Cells(<<<<32, m>>, <<33, 9>>>>), 1536, flags,
                    Regs(wrap8(m + 7), wrap8(m + 85), wrap8(m + 170), 253),
                    FALSE),
            NoArg)

\* (i.run)(d, cpu) with an address operand
StoreRun(h, adr) ==
    /\ op = <<>>
    /\ Applied(h, run_handler(h, Address(adr), cpu), Address(adr))

\* (i.run)(d, cpu) with the operand of the implied mode
StoreRunImplied(h) ==
    /\ op = <<>>
    /\ Applied(h, run_handler(h, unpack("Impl", cpu).d, cpu), unpack("Impl", cpu).d)

StoreNext ==
    \/ \E h \in MemorySteps \cup Stores, adr \in StoreAddrs : StoreRun(h, adr)
    \/ \E h \in RegisterSteps : StoreRunImplied(h)

SpecStore == StoreInit /\ [][StoreNext]_vars

\* the value a handler of this family works on, and the value it leaves
StoreOld(h, d, c) ==
    CASE h \in MemorySteps -> MemAt(c, d.x)
      [] h \in {"inx", "dex", "stx"} -> c.reg.x
      [] h \in {"iny", "dey", "sty"} -> c.reg.y
      [] h = "sta" -> c.reg.a

StoreNew(h, old) ==
    CASE h \in {"inc", "inx", "iny"} -> (old + 1) % 256
      [] h \in {"dec", "dex", "dey"} -> (old + 255) % 256
      [] h \in Stores -> old

\* C23: inc and dec write (m + 1) mod 256 and (m - 1) mod 256 to the
\* addressed cell, inx, iny, dex and dey do the same to X or Y; they set
\* zero and negative from the new value and leave the five other flags, the
\* other registers and the other cells alone.  sta, stx and sty write the
\* register to the addressed cell and change no flag, no register and no
\* other cell.
C23_NarrowEffect ==
    op # <<>> =>
        LET h == op[1]
            new == StoreNew(h, StoreOld(h, arg, pre))
            cells == (DOMAIN cpu.bus.memory \cup DOMAIN pre.bus.memory)
                         \ (IF h \in RegisterSteps THEN {} ELSE {arg.x})
        IN  /\ ~cpu.panicked
            /\ \A x \in cells : MemAt(cpu, x) = MemAt(pre, x)
            /\ h \notin RegisterSteps => MemAt(cpu, arg.x) = new
            /\ h \notin RegisterSteps => cpu.reg = pre.reg
            /\ h \in {"inx", "dex"} => cpu.reg = [pre.reg EXCEPT !.x = new]
            /\ h \in {"iny", "dey"} => cpu.reg = [pre.reg EXCEPT !.y = new]
            /\ h \in Stores => cpu.flags = pre.flags
            /\ h \notin Stores =>
                   /\ cpu.flags.zero = (new = 0)
                   /\ cpu.flags.negative = (new >= 128)
                   /\ \A f \in FlagNames \ {"zero", "negative"} :
                          cpu.flags[f] = pre.flags[f]

\* a dec of a cell holding 0x00: the new value 0xFF wraps, negative is set,
\* and the carry that was set before stays set
C23_Witness ==
    /\ op = <<"dec">>
    /\ MemAt(pre, arg.x) = 0
    /\ MemAt(cpu, arg.x) = 255
    /\ cpu.flags.negative /\ ~cpu.flags.zero
    /\ pre.flags.carry /\ cpu.flags.carry

\* C24: zero-page,X and zero-page,Y resolve to (z + index) mod 256, below
\* 0x0100 and without a page cross; indexed-indirect reads the low byte of
\* its target at (z + X) mod 256 and the high byte at (z + X + 1) mod 256;
\* indirect-indexed reads the low byte of its base at z and the high byte
\* at (z + 1) mod 256.
C24_ZeroPageWraps ==
    (op # <<>> /\ op[1] \in {"ZpgX", "ZpgY", "XInd", "IndY"} /\ ~cpu.panicked) =>
        LET z == MemAt(pre, pre.pc + 1)
            x == pre.reg.x
            y == pre.reg.y
            target == MemAt(pre, (z + x) % 256)
                          + 256 * MemAt(pre, (z + x + 1) % 256)
            base == MemAt(pre, z) + 256 * MemAt(pre, (z + 1) % 256)
        IN  /\ op[1] = "ZpgX" =>
                   arg.d = Address((z + x) % 256) /\ ~arg.pagecross
            /\ op[1] = "ZpgY" =>
                   arg.d = Address((z + y) % 256) /\ ~arg.pagecross
            /\ op[1] \in {"ZpgX", "ZpgY"} => arg.d.x < 256
            /\ op[1] = "XInd" => arg.d = Address(target)
            /\ op[1] = "IndY" => arg.d = Address((base + y) % 65536)

\* an indirect-Y operand whose pointer lies at 0xFF, with different bytes
\* at 0x0000 and 0x0100
C24_Witness ==
    /\ op = <<"IndY">>
    /\ ~cpu.panicked
    /\ MemAt(pre, pre.pc + 1) = 255
    /\ MemAt(pre, 0) # MemAt(pre, 256)

---------------------------------------------------------------------------
(* SpecRegs: the register transfers, the logic operations, the flag       *)
(* instructions, bit and rti, each called on its operand                  *)

RegHandlers == {"tax", "tay", "tsx", "txa", "txs", "tya", "and", "eor",
                "ora", "clc", "cld", "cli", "clv", "sec", "sed", "sei",
                "rti", "bit"}

RegOperands == {Immediate(0), Immediate(15), Immediate(192), Address(32),
                Address(65535)}

RegsInit ==
    \E reg \in {Regs(129, 2, 3, 127), Regs(15, 240, 0, 0), Regs(0, 0, 0, 253)},
       flags \in {PowerOnFlags, AllFlags, [f \in FlagNames |-> FALSE]},
       cell \in {0, 64, 192} :
        ScenarioInit(MakeCPU(Cells(<<<<32, cell>>>>), 1536, flags, reg, FALSE),
                     NoArg)

\* (i.run)(d, cpu) for one of the eighteen handlers
RegsRun(h, d) ==
    /\ op = <<>>
    /\ Applied(h, run_handler(h, d, cpu), d)

RegsNext == \E h \in RegHandlers, d \in RegOperands : RegsRun(h, d)

SpecRegs == RegsInit /\ [][RegsNext]_vars

=============================================================================
